---- MODULE Spec2Model ----
(***************************************************************************)
(* Model of LBLDataAccess/load_geocodes.py: the lookup catalog, the join   *)
(* graph, the breadth-first path resolver (run_graph) and the join         *)
(* executor (get_filtered_geocodes) of SmartGeocodeLookup.                 *)
(*                                                                         *)
(* Column names are sequences of one-character strings, so that the        *)
(* slices the code takes (col[:len(la_col)], col[-2:]) and upper() are     *)
(* computed, not assumed.  Python dicts are sequences of entries in        *)
(* insertion order; Python None and unset attributes are tagged records.   *)
(***************************************************************************)
EXTENDS Integers, Sequences, FiniteSets, TLC

(***************************************************************************)
(* Strings                                                                 *)
(***************************************************************************)
Range(s) == {s[i] : i \in 1..Len(s)}

Contains(s, x) == \E i \in 1..Len(s) : s[i] = x

\* col[:n]
Prefix(col, n) == SubSeq(col, 1, IF n <= Len(col) THEN n ELSE Len(col))

\* col[-n:]
Suffix(col, n) == IF n >= Len(col) THEN col ELSE SubSeq(col, Len(col) - n + 1, Len(col))

LowerToUpper ==
    [c \in {"w", "d", "o", "a", "c", "l", "n", "m", "s"} |->
        CASE c = "w" -> "W" [] c = "d" -> "D" [] c = "o" -> "O" [] c = "a" -> "A"
          [] c = "c" -> "C" [] c = "l" -> "L" [] c = "n" -> "N" [] c = "m" -> "M"
          [] c = "s" -> "S"]

\* str.upper(), one character at a time
Upper(col) ==
    [i \in 1..Len(col) |->
        IF col[i] \in DOMAIN LowerToUpper THEN LowerToUpper[col[i]] ELSE col[i]]

CD == <<"C", "D">>
NM == <<"N", "M">>
LAD == <<"L", "A", "D">>
UTLA == <<"U", "T", "L", "A">>
LTLA == <<"L", "T", "L", "A">>

\* self._la_possibilities
la_possibilities == <<LAD, UTLA, LTLA>>

WD22CD == <<"W", "D", "2", "2", "C", "D">>
WD22NM == <<"W", "D", "2", "2", "N", "M">>
LSOA21CD == <<"L", "S", "O", "A", "2", "1", "C", "D">>
OA21CD == <<"O", "A", "2", "1", "C", "D">>
LAD22CD == <<"L", "A", "D", "2", "2", "C", "D">>
LAD22NM == <<"L", "A", "D", "2", "2", "N", "M">>
wd22cd == <<"w", "d", "2", "2", "c", "d">>
RGN22CD == <<"R", "G", "N", "2", "2", "C", "D">>

(***************************************************************************)
(* Python values                                                           *)
(***************************************************************************)
Unset == [set |-> FALSE]
Val(x) == [set |-> TRUE, v |-> x]

\* dict[key] = value on a dict kept as a sequence of [key, value] entries:
\* an existing key keeps its position and takes the new value
DictPut(d, key, value) ==
    IF \E i \in 1..Len(d) : d[i].key = key
    THEN [i \in 1..Len(d) |-> IF d[i].key = key THEN [key |-> key, value |-> value] ELSE d[i]]
    ELSE Append(d, [key |-> key, value |-> value])

DictKeys(d) == [i \in 1..Len(d) |-> d[i].key]

DictGet(d, key) == d[CHOOSE i \in 1..Len(d) : d[i].key = key].value

Reverse(s) == [i \in 1..Len(s) |-> s[Len(s) + 1 - i]]

RECURSIVE Flatten(_)
Flatten(ss) == IF ss = <<>> THEN <<>> ELSE Head(ss) \o Flatten(Tail(ss))

(***************************************************************************)
(* The catalog (self.files_and_folders): the nested dict                   *)
(* {folder: {file name: {columns, useful_columns, useful_columns_nunique}}}*)
(* flattened, in iteration order, to a sequence of entries                 *)
(* [folder, name, columns, useful_columns, useful_columns_nunique].        *)
(***************************************************************************)

\* useful_columns = [col for col in cols if col[-2:].upper()=='CD']
useful_columns_of(cols) == SelectSeq(cols, LAMBDA col : Upper(Suffix(col, 2)) = CD)

\* a variant of the catalog's pairs that lists every column of a table, not
\* its code columns alone
TableColumnPairsAllColumns(faf) ==
    [i \in 1..Len(faf) |->
        [table |-> faf[i].name,
         columns |-> faf[i].columns,
         columns_nunique |-> faf[i].useful_columns_nunique]]

\* table_column_pairs.append((table_name, useful_columns, useful_columns_nunique))
TableColumnPairs(faf) ==
    [i \in 1..Len(faf) |->
        [table |-> faf[i].name,
         columns |-> faf[i].useful_columns,
         columns_nunique |-> faf[i].useful_columns_nunique]]

\* list(set(columns).intersection(set(comparison_columns))): the order of a
\* set of strings is fixed by the process's string hashing; `order` is that
\* order, as a sequence over every column name
SharedColumns(columns, comparison_columns, order) ==
    LET both == Range(columns) \cap Range(comparison_columns)
    IN  IF both = {} THEN <<>> ELSE SelectSeq(order, LAMBDA c : c \in both)

\* the value graph[table] gets in the iteration enum = i of create_graph:
\* table_columns_comparison is table_column_pairs without its i-th entry
AdjacencyOf(pairs, i, order) ==
    Flatten([j \in 1..(Len(pairs) - 1) |->
        LET k == IF j < i THEN j ELSE j + 1
            shared == SharedColumns(pairs[i].columns, pairs[k].columns, order)
        IN  [c \in 1..Len(shared) |-> [table |-> pairs[k].table, via |-> shared[c]]]])

\* create_graph: graph[table] = [] is keyed by the table name alone, so a
\* name met again starts over and the last entry of that name decides
CreateGraph(faf, order) ==
    LET pairs == TableColumnPairs(faf)
        names == {pairs[i].table : i \in 1..Len(pairs)}
        last(n) == CHOOSE i \in 1..Len(pairs) :
                      /\ pairs[i].table = n
                      /\ \A j \in (i + 1)..Len(pairs) : pairs[j].table # n
    IN  [n \in names |-> AdjacencyOf(pairs, last(n), order)]

(***************************************************************************)
(* BFS_SP.  A path is a sequence of nodes [table, via]; the start node is  *)
(* the bare table name (via = <<>>), every other node the tuple            *)
(* (table, join column).                                                   *)
(***************************************************************************)
StartNode(t) == [table |-> t, via |-> <<>>]

NoneResult == [kind |-> "None", path |-> <<>>]
NoConnectingPath == [kind |-> "no_connecting_path", path |-> <<>>]
PathResult(p) == [kind |-> "path", path |-> p]

\* a variant of the pass that reads the first path of the queue and leaves it
\* there (path = queue[0])
BFSIterNotPopping(graph, goal, queue, explored) ==
    LET path == Head(queue)
        node == path[Len(path)]
    IN  IF Contains(explored, node)
        THEN [done |-> FALSE, result |-> NoConnectingPath,
              queue |-> queue, explored |-> explored]
        ELSE
          LET neighbours == graph[node.table]
              hits == {i \in 1..Len(neighbours) : neighbours[i].table = goal}
              first == CHOOSE i \in hits : \A j \in hits : i <= j
          IN  IF hits # {}
              THEN [done |-> TRUE, result |-> PathResult(Append(path, neighbours[first])),
                    queue |-> queue \o [i \in 1..first |-> Append(path, neighbours[i])],
                    explored |-> explored]
              ELSE [done |-> FALSE, result |-> NoConnectingPath,
                    queue |-> queue \o
                              [i \in 1..Len(neighbours) |-> Append(path, neighbours[i])],
                    explored |-> Append(explored, node)]

\* a variant of the pass that takes the path to go on with from the end of
\* the queue, tests that path for the goal when it takes it, and puts the
\* paths to the neighbours where the next pass takes from: a depth-first search
BFSIterDepthFirst(graph, goal, queue, explored) ==
    LET path == Head(queue)
        node == path[Len(path)]
    IN  IF Len(path) > 1 /\ node.table = goal
        THEN [done |-> TRUE, result |-> PathResult(path),
              queue |-> Tail(queue), explored |-> explored]
        ELSE IF Contains(explored, node)
        THEN [done |-> FALSE, result |-> NoConnectingPath,
              queue |-> Tail(queue), explored |-> explored]
        ELSE [done |-> FALSE, result |-> NoConnectingPath,
              queue |-> [i \in 1..Len(graph[node.table]) |->
                            Append(path, graph[node.table][i])] \o Tail(queue),
              explored |-> Append(explored, node)]

\* one pass of the while loop of BFS_SP on its locals queue and explored:
\* either the function returns (done, result) or the loop goes on
BFSIter(graph, goal, queue, explored) ==
    LET path == Head(queue)
        node == path[Len(path)]
    IN  IF Contains(explored, node)
        THEN [done |-> FALSE, result |-> NoConnectingPath,
              queue |-> Tail(queue), explored |-> explored]
        ELSE
          LET neighbours == graph[node.table]
              hits == {i \in 1..Len(neighbours) : neighbours[i].table = goal}
              first == CHOOSE i \in hits : \A j \in hits : i <= j
          IN  IF hits # {}
              THEN [done |-> TRUE, result |-> PathResult(Append(path, neighbours[first])),
                    queue |-> Tail(queue) \o [i \in 1..first |-> Append(path, neighbours[i])],
                    explored |-> explored]
              ELSE [done |-> FALSE, result |-> NoConnectingPath,
                    queue |-> Tail(queue) \o
                              [i \in 1..Len(neighbours) |-> Append(path, neighbours[i])],
                    explored |-> Append(explored, node)]

\* while queue: ... return 'no_connecting_path'
RECURSIVE BFSLoop(_, _, _, _)
BFSLoop(graph, goal, queue, explored) ==
    IF queue = <<>> THEN NoConnectingPath
    ELSE LET it == BFSIter(graph, goal, queue, explored)
         IN  IF it.done THEN it.result
             ELSE BFSLoop(graph, goal, it.queue, it.explored)

BFS_SP(graph, start, goal) ==
    IF start = goal THEN NoneResult
    ELSE BFSLoop(graph, goal, <<<<StartNode(start)>>>>, <<>>)

(***************************************************************************)
(* Start tables                                                            *)
(***************************************************************************)
\* the dict built by d[kvs[1].key] = kvs[1].value; ...; d[kvs[n].key] = kvs[n].value:
\* keys in the order they were first set, each with the value set last
DictOf(kvs) ==
    LET idx == [i \in 1..Len(kvs) |-> i]
        firsts == SelectSeq(idx, LAMBDA i : \A j \in 1..(i - 1) : kvs[j].key # kvs[i].key)
        last(key) == CHOOSE i \in 1..Len(kvs) :
                        /\ kvs[i].key = key
                        /\ \A j \in (i + 1)..Len(kvs) : kvs[j].key # key
    IN  [k \in 1..Len(firsts) |->
            [key |-> kvs[firsts[k]].key, value |-> kvs[last(kvs[firsts[k]].key)].value]]

\* [col for col in columns if col[:len(la_col)].upper() in self._la_possibilities
\*                            and col[-2:].upper() == suffix]
LaColSubset(columns, la_col, suffix) ==
    SelectSeq(columns, LAMBDA col :
        /\ Contains(la_possibilities, Upper(Prefix(col, Len(la_col))))
        /\ Upper(Suffix(col, 2)) = suffix)

\* la_col in [col[:len(la_col)].upper() for col in columns['columns']]
HasLaColumn(columns, la_col) ==
    \E i \in 1..Len(columns) : Upper(Prefix(columns[i], Len(la_col))) = la_col

\* get_starting_point: the assignments starting_points[file_name] = {...}, in
\* the order of the loops over the catalog and over self._la_possibilities
GetStartingPoint(faf, sc) ==
    LET steps == Flatten([i \in 1..Len(faf) |-> [l \in 1..Len(la_possibilities) |-> <<i, l>>]])
        taken == SelectSeq(steps, LAMBDA st :
                    /\ HasLaColumn(faf[st[1]].columns, la_possibilities[st[2]])
                    /\ Contains(faf[st[1]].useful_columns, sc))
        kvs == [k \in 1..Len(taken) |->
                  LET e == faf[taken[k][1]]
                      la_col == la_possibilities[taken[k][2]]
                  IN  [key |-> e.name,
                       value |-> [columns |-> e.columns,
                                  la_nm_columns |-> LaColSubset(e.columns, la_col, NM),
                                  la_cd_columns |-> LaColSubset(e.columns, la_col, CD),
                                  useful_columns |-> e.useful_columns]]]
        starting_points == DictOf(kvs)
    IN  IF starting_points # <<>> THEN [none |-> FALSE, items |-> starting_points]
        ELSE [none |-> TRUE, items |-> <<>>]

\* get_starting_point_without_local_authority_constraint
GetStartingPointWithoutLA(faf, sc) ==
    LET taken == SelectSeq(faf, LAMBDA e : Contains(e.useful_columns, sc))
        kvs == [k \in 1..Len(taken) |->
                  [key |-> taken[k].name,
                   value |-> [columns |-> taken[k].columns,
                              useful_columns |-> taken[k].useful_columns]]]
        starting_points == DictOf(kvs)
    IN  IF starting_points # <<>> THEN [none |-> FALSE, items |-> starting_points]
        ELSE [none |-> TRUE, items |-> <<>>]

(***************************************************************************)
(* End tables, find_paths, find_shortest_paths                             *)
(***************************************************************************)
\* Python's order on lists of numbers: a < b
ListLess(a, b) ==
    \E k \in 1..(Len(b)) :
        /\ \A j \in 1..(k - 1) : j <= Len(a) /\ a[j] = b[j]
        /\ k - 1 <= Len(a)
        /\ (k > Len(a) \/ a[k] < b[k])

\* find_paths, using_max_values: the tables whose list of nunique counts
\* equals max() of those lists
EndOptionsMax(pairs) ==
    LET isMax(x) == \A i \in 1..Len(pairs) : ~ListLess(x, pairs[i].columns_nunique)
        chosen == SelectSeq(pairs, LAMBDA p : isMax(p.columns_nunique))
    IN  [i \in 1..Len(chosen) |-> chosen[i].table]

\* find_paths, otherwise: if self.ending_column in columns
EndOptionsNormal(pairs, ec) ==
    LET chosen == SelectSeq(pairs, LAMBDA p : Contains(p.columns, ec))
    IN  [i \in 1..Len(chosen) |-> chosen[i].table]

EndOptions(pairs, ec, using_max) ==
    IF using_max THEN EndOptionsMax(pairs) ELSE EndOptionsNormal(pairs, ec)

\* a variant of path_options[start_table] that keeps the routes BFS_SP found
\* and leaves out its None for a start table that is the end table
PathOptionsOfFoundRoutes(graph, start_table, end_options) ==
    LET found == [e \in 1..Len(end_options) |->
                    [key |-> end_options[e],
                     value |-> BFS_SP(graph, start_table, end_options[e])]]
    IN  DictOf(SelectSeq(found, LAMBDA kv : kv.value.kind = "path"))

\* a variant of path_options[start_table] that keeps what BFS_SP returned for
\* every end table, 'no_connecting_path' too
PathOptionsOfEveryResult(graph, start_table, end_options) ==
    DictOf([e \in 1..Len(end_options) |->
              [key |-> end_options[e],
               value |-> BFS_SP(graph, start_table, end_options[e])]])

\* path_options[start_table], before the pop of an empty one
PathOptionsOf(graph, start_table, end_options) ==
    LET found == [e \in 1..Len(end_options) |->
                    [key |-> end_options[e],
                     value |-> BFS_SP(graph, start_table, end_options[e])]]
    IN  DictOf(SelectSeq(found, LAMBDA kv : kv.value # NoConnectingPath))

\* find_paths: path_options as it stands when the loops end
FindPaths(graph, start_tables, end_options) ==
    LET all == [s \in 1..Len(start_tables) |->
                  [key |-> start_tables[s],
                   value |-> PathOptionsOf(graph, start_tables[s], end_options)]]
    IN  SelectSeq(all, LAMBDA kv : Len(kv.value) >= 1)

\* shortest_path_length = 99
InitialShortestPathLength == 99

\* the two nested loops of find_shortest_paths over all_paths, on the locals
\* shortest_path_length (len) and shortest_paths (paths); routes is all_paths
\* in iteration order, as [start, route] entries
RECURSIVE ShortestFold(_, _, _, _)
ShortestFold(routes, k, len, paths) ==
    IF k > Len(routes) THEN [len |-> len, paths |-> paths]
    ELSE LET r == routes[k]
         IN  IF r.route.kind = "None"
             THEN ShortestFold(routes, k + 1, 1, Append(paths, <<StartNode(r.start)>>))
             ELSE IF Len(r.route.path) <= len
                  THEN ShortestFold(routes, k + 1, Len(r.route.path), Append(paths, r.route.path))
                  ELSE ShortestFold(routes, k + 1, len, paths)

\* all_paths flattened in the order the loops of find_shortest_paths visit it
RoutesOf(all_paths) ==
    Flatten([s \in 1..Len(all_paths) |->
        [e \in 1..Len(all_paths[s].value) |->
            [start |-> all_paths[s].key, route |-> all_paths[s].value[e].value]]])

\* a variant of find_shortest_paths that returns shortest_paths as the loops
\* left it, without the selection by shortest_path_length that follows them
FindShortestPathsAsAppended(all_paths) ==
    ShortestFold(RoutesOf(all_paths), 1, InitialShortestPathLength, <<>>).paths

\* find_shortest_paths, after find_paths returned all_paths
FindShortestPaths(all_paths) ==
    LET f == ShortestFold(RoutesOf(all_paths), 1, InitialShortestPathLength, <<>>)
    IN  SelectSeq(f.paths, LAMBDA x : Len(x) = f.len)

(***************************************************************************)
(* Tables, files and the catalog scan                                      *)
(*                                                                         *)
(* A DataFrame is [columns, rows]: rows is a sequence of rows, each a      *)
(* sequence of values aligned with columns.  A file of the lookup          *)
(* directory is [folder, name, ext, content]: ext is what Path.suffix      *)
(* gives, content names what the file holds (see LookupTables).            *)
(***************************************************************************)
NaN == "NaN"
OBJECTID == <<"O", "B", "J", "E", "C", "T", "I", "D">>

ColumnIndex(df, col) == CHOOSE i \in 1..Len(df.columns) : df.columns[i] = col

\* df.drop(columns=[col])
DropColumn(df, col) ==
    LET keep == SelectSeq([i \in 1..Len(df.columns) |-> i], LAMBDA i : df.columns[i] # col)
    IN  [columns |-> [k \in 1..Len(keep) |-> df.columns[keep[k]]],
         rows |-> [r \in 1..Len(df.rows) |-> [k \in 1..Len(keep) |-> df.rows[r][keep[k]]]]]

\* str.strip()
RECURSIVE Strip(_)
Strip(col) ==
    IF col = <<>> THEN col
    ELSE IF Head(col) = " " THEN Strip(Tail(col))
    ELSE IF col[Len(col)] = " " THEN Strip(SubSeq(col, 1, Len(col) - 1))
    ELSE col

\* open_table_as_pandas: None for a file that is neither .csv nor .xlsx;
\* read is what pd.read_csv / pd.read_excel gives for the file
OpenTableAsPandas(file, read) ==
    IF file.ext \in {".csv", ".xlsx"}
    THEN LET df == IF Contains(read.columns, OBJECTID)
                   THEN DropColumn(read, OBJECTID) ELSE read
         IN  [none |-> FALSE,
              df |-> [columns |-> [i \in 1..Len(df.columns) |-> Strip(Upper(df.columns[i]))],
                      rows |-> df.rows]]
    ELSE [none |-> TRUE, df |-> [columns |-> <<>>, rows |-> <<>>]]

\* df[col].nunique(): the distinct values that are not null
NUnique(df, col) ==
    LET c == ColumnIndex(df, col)
    IN  Cardinality({df.rows[r][c] : r \in 1..Len(df.rows)} \ {NaN})

\* _create_json_file_for_lookups, for one file that opened
ScanFile(file, read) ==
    LET df == OpenTableAsPandas(file, read).df
        useful == useful_columns_of(df.columns)
    IN  [folder |-> file.folder, name |-> file.name, columns |-> df.columns,
         useful_columns |-> useful,
         useful_columns_nunique |-> [i \in 1..Len(useful) |-> NUnique(df, useful[i])]]

(***************************************************************************)
(* The cache file (lookups/json_data.json)                                 *)
(*                                                                         *)
(* A JSON value is [t, v]: an object holds its members [name, value] in    *)
(* the order of the text, an array its items, a string its characters, a   *)
(* number its value.  A JSON file is [wellformed, value]: value is the     *)
(* document the text holds when the text parses.                           *)
(***************************************************************************)
Supported(file) == file.ext \in {".csv", ".xlsx"}

\* the folders of the lookup directory, as iterdir lists them
FolderNames(dir) ==
    DictKeys(DictOf([i \in 1..Len(dir) |-> [key |-> dir[i].folder, value |-> i]]))

\* folder.iterdir()
FilesIn(dir, folder) == SelectSeq(dir, LAMBDA f : f.folder = folder)

\* files_and_folders[folder.name][file.name] once the three lists are extended
CatalogEntry(scanned) ==
    << [key |-> "columns", value |-> scanned.columns],
       [key |-> "useful_columns", value |-> scanned.useful_columns],
       [key |-> "useful_columns_nunique", value |-> scanned.useful_columns_nunique] >>

\* the dict of one folder: files_and_folders[folder.name]
CatalogFolder(files, disk) ==
    DictOf([i \in 1..Len(files) |->
               [key |-> files[i].name,
                value |-> CatalogEntry(ScanFile(files[i], disk[files[i].content]))]])

\* the local files_and_folders of _create_json_file_for_lookups when its loops
\* end, on a directory whose files all open
CatalogOf(dir, disk) ==
    LET folders == FolderNames(dir)
    IN  [k \in 1..Len(folders) |->
            [key |-> folders[k], value |-> CatalogFolder(FilesIn(dir, folders[k]), disk)]]

\* json.dump of a list of strings or of numbers
DumpList(list, t) == [t |-> "array", v |-> [i \in 1..Len(list) |-> [t |-> t, v |-> list[i]]]]

\* json.dump of one table's entry
DumpEntry(entry) ==
    [t |-> "object",
     v |-> << [name |-> "columns",
               value |-> DumpList(DictGet(entry, "columns"), "string")],
              [name |-> "useful_columns",
               value |-> DumpList(DictGet(entry, "useful_columns"), "string")],
              [name |-> "useful_columns_nunique",
               value |-> DumpList(DictGet(entry, "useful_columns_nunique"), "number")] >>]

\* json.dump(files_and_folders, outfile, indent=4)
JsonDump(catalog) ==
    [wellformed |-> TRUE,
     value |->
         [t |-> "object",
          v |-> [k \in 1..Len(catalog) |->
                    [name |-> catalog[k].key,
                     value |-> [t |-> "object",
                                v |-> [i \in 1..Len(catalog[k].value) |->
                                          [name |-> catalog[k].value[i].key,
                                           value |-> DumpEntry(catalog[k].value[i].value)]]]]]]]

\* a list without the items that repeat an earlier one
LoadArrayDistinct(array) ==
    DictKeys(DictOf([i \in 1..Len(array.v) |-> [key |-> array.v[i].v, value |-> i]]))

\* what json.load makes of a JSON array of strings or numbers: a list
LoadArray(array) == [i \in 1..Len(array.v) |-> array.v[i].v]

\* what json.load makes of the JSON object of one table: a dict, a repeated
\* name taking the value given last
LoadEntry(table) ==
    DictOf([i \in 1..Len(table.v) |->
               [key |-> table.v[i].name, value |-> LoadArray(table.v[i].value)]])

\* what json.load makes of the JSON object of one folder
LoadFolder(folder) ==
    DictOf([i \in 1..Len(folder.v) |->
               [key |-> folder.v[i].name, value |-> LoadEntry(folder.v[i].value)]])

\* json.load on the three levels of objects the cache file holds
JsonLoad(file) ==
    DictOf([i \in 1..Len(file.value.v) |->
               [key |-> file.value.v[i].name, value |-> LoadFolder(file.value.v[i].value)]])

\* the tables of the catalog, in the order the nested dicts list them
Flat(catalog) ==
    Flatten([k \in 1..Len(catalog) |->
                [i \in 1..Len(catalog[k].value) |->
                    [folder |-> catalog[k].key,
                     name |-> catalog[k].value[i].key,
                     columns |-> DictGet(catalog[k].value[i].value, "columns"),
                     useful_columns |-> DictGet(catalog[k].value[i].value, "useful_columns"),
                     useful_columns_nunique |->
                         DictGet(catalog[k].value[i].value, "useful_columns_nunique")]]])

ReadingJsonFile == "Reading JSON file json_data.json"
NoJsonFileFound == "No JSON file found. Generating one for faster lookups in the future"

\* _read_json_lookup_table: json.load raises on a text that does not parse
ReadJsonLookupTable(json, prints) ==
    IF json.v.wellformed
    THEN [raised |-> "no", json |-> json, faf |-> Flat(JsonLoad(json.v)), printed |-> prints]
    ELSE [raised |-> "JSONDecodeError", json |-> json, faf |-> <<>>, printed |-> prints]

\* _create_json_file_for_lookups: the cache file it leaves.  For a file that
\* is neither .csv nor .xlsx open_table_as_pandas gives None, list(df.columns)
\* raises AttributeError, which the except TypeError lets through, and the
\* file is never written
CreateJsonFileForLookups(dir, disk) ==
    IF \A i \in 1..Len(dir) : Supported(dir[i])
    THEN [raised |-> "no", json |-> Val(JsonDump(CatalogOf(dir, disk)))]
    ELSE [raised |-> "AttributeError", json |-> Unset]

\* the else branch of _construct_or_read_json_file, after the scan
ReadCreated(created) ==
    IF created.raised = "no"
    THEN ReadJsonLookupTable(created.json, <<NoJsonFileFound>>)
    ELSE [raised |-> created.raised, json |-> created.json, faf |-> <<>>,
          printed |-> <<NoJsonFileFound>>]

\* _construct_or_read_json_file that scans whether or not the cache file is there
ConstructOrReadJsonFileAlwaysScanning(dir, disk, json) ==
    ReadCreated(CreateJsonFileForLookups(dir, disk))

\* _construct_or_read_json_file on the lookup directory dir whose cache file
\* is json (Unset: no such file): what is raised, the cache file left, the
\* catalog returned and what is printed
ConstructOrReadJsonFile(dir, disk, json) ==
    IF json.set
    THEN ReadJsonLookupTable(json, <<ReadingJsonFile>>)
    ELSE ReadCreated(CreateJsonFileForLookups(dir, disk))

(***************************************************************************)
(* Bounds and inputs                                                       *)
(***************************************************************************)
\* files in a generated lookup directory
MaxTables == 3

Folders == <<"2021", "2022">>
TableNames == <<"T1.csv", "T2.csv", "T3.csv", "T4.csv", "T5.csv">>

\* the contents of the generated lookup files, by content id: one region, two
\* local authorities, two wards, three LSOAs, four output areas
LookupTables ==
    << [columns |-> <<WD22CD, WD22NM, LAD22CD, LAD22NM, RGN22CD>>,
        rows |-> << <<"W1", "Ward1", "L1", "Lewisham", "R1">>,
                    <<"W2", "Ward2", "L2", "Greenwich", "R1">> >>],
       [columns |-> <<wd22cd, LAD22CD, OA21CD>>,
        rows |-> << <<"W1", "L1", "O1">>, <<"W1", "L1", "O2">>, <<"W2", "L2", "O3">> >>],
       [columns |-> <<LSOA21CD, WD22CD>>,
        rows |-> << <<"S1", "W1">>, <<"S2", "W1">>, <<"S3", "W2">> >>],
       [columns |-> <<OBJECTID, OA21CD, LSOA21CD>>,
        rows |-> << <<"1", "O1", "S1">>, <<"2", "O2", "S2">>, <<"3", "O3", "S3">>,
                    <<"4", "O4", "S3">> >>] >>

\* the catalog tables WARD, LSOA and OA of the three-table scenario
ScenarioTables ==
    << [columns |-> <<WD22CD, WD22NM, LAD22CD, LAD22NM>>,
        rows |-> << <<"W1", "Ward1", "L1", "Lewisham">>,
                    <<"W2", "Ward2", "L2", "Greenwich">> >>],
       [columns |-> <<LSOA21CD, WD22CD>>,
        rows |-> << <<"S1", "W1">>, <<"S2", "W1">>, <<"S3", "W2">> >>],
       [columns |-> <<OA21CD, LSOA21CD>>,
        rows |-> << <<"O1", "S1">>, <<"O2", "S2">>, <<"O3", "S3">>, <<"O4", "S3">> >>] >>

\* rows in a generated table of the join tables A, B and C
MaxRows == 2

\* the sequences of at most m of the numbers 1..n, repeated or not, that
\* never step down
RECURSIVE RowChoices(_, _)
RowChoices(n, m) ==
    IF m = 0 THEN << <<>> >>
    ELSE LET shorter == RowChoices(n, m - 1)
             longest == SelectSeq(shorter, LAMBDA q : Len(q) = m - 1)
             later(q) == SelectSeq([j \in 1..n |-> j],
                                   LAMBDA j : q = <<>> \/ q[Len(q)] <= j)
         IN  shorter \o Flatten([i \in 1..Len(longest) |->
                                    [k \in 1..Len(later(longest[i])) |->
                                        Append(longest[i], later(longest[i])[k])]])

\* the tables of these columns with at most MaxRows of the rows, a row
\* repeated or not, in the order given
TablesOver(columns, rows) ==
    [k \in 1..Len(RowChoices(Len(rows), MaxRows)) |->
        [columns |-> columns,
         rows |-> [r \in 1..Len(RowChoices(Len(rows), MaxRows)[k]) |->
                      rows[RowChoices(Len(rows), MaxRows)[k][r]]]]]

\* the join tables A(id, x), B(id, y) and C(y, z), with OA21CD for id,
\* LAD22NM for x, LSOA21CD for y and WD22CD for z
TablesA == TablesOver(<<OA21CD, LAD22NM>>,
                      << <<"O1", "Lewisham">>, <<"O2", "Lewisham">>, <<"O2", "Greenwich">> >>)
TablesB == TablesOver(<<OA21CD, LSOA21CD>>,
                      << <<"O1", "S1">>, <<"O1", "S2">>, <<"O2", "S1">> >>)
TablesC == TablesOver(<<LSOA21CD, WD22CD>>, << <<"S1", "W1">>, <<"S1", "W2">> >>)

\* what a lookup file can hold, by content id
Disk == LookupTables \o ScenarioTables \o TablesA \o TablesB \o TablesC

\* every column name, in the two orders a set of them is listed in
ColumnUniverse == <<WD22CD, WD22NM, LSOA21CD, OA21CD, LAD22CD, LAD22NM, RGN22CD>>
HashOrders == <<ColumnUniverse, Reverse(ColumnUniverse)>>

\* how n files lie in the folders: all in the first folder (<<0, 0>>), or
\* the files from dup[2] on in the second folder, file dup[2] named like the
\* file before it, the last of the first folder
Arrangements(n) == {<<0, 0>>} \cup {<<i, i + 1>> : i \in 1..(n - 1)}

\* lookup directories of n files with distinct contents
DirectoriesOf(n) ==
    { [i \in 1..n |->
          [folder |-> IF dup[2] = 0 \/ i < dup[2] THEN Folders[1] ELSE Folders[2],
           name |-> IF i = dup[2] THEN TableNames[dup[1]] ELSE TableNames[i],
           ext |-> ".csv",
           content |-> t[i]]] :
        t \in {f \in [1..n -> 1..Len(LookupTables)] : \A i, j \in 1..n : i # j => f[i] # f[j]},
        dup \in Arrangements(n) }

Directories == UNION {DirectoriesOf(n) : n \in 1..MaxTables}

\* the lookup directories of the three-table scenario: the files WARD, LSOA
\* and OA in one folder, in every order iterdir can list them
ScenarioFiles ==
    [k \in 1..Len(ScenarioTables) |->
        [folder |-> Folders[1], name |-> <<"WARD.csv", "LSOA.csv", "OA.csv">>[k],
         ext |-> ".csv", content |-> Len(LookupTables) + k]]

ScenarioDirectories ==
    { [i \in 1..Len(ScenarioFiles) |-> ScenarioFiles[t[i]]] :
        t \in {f \in [1..Len(ScenarioFiles) -> 1..Len(ScenarioFiles)] :
                  \A i, j \in 1..Len(ScenarioFiles) : i # j => f[i] # f[j]} }

\* the lookup directories of the join tables: one A, one B and one C
JoinDirectories ==
    { << [folder |-> Folders[1], name |-> "A.csv", ext |-> ".csv",
          content |-> Len(LookupTables) + Len(ScenarioTables) + a],
         [folder |-> Folders[1], name |-> "B.csv", ext |-> ".csv",
          content |-> Len(LookupTables) + Len(ScenarioTables) + Len(TablesA) + b],
         [folder |-> Folders[1], name |-> "C.csv", ext |-> ".csv",
          content |-> Len(LookupTables) + Len(ScenarioTables) + Len(TablesA)
                      + Len(TablesB) + c] >> :
        a \in 1..Len(TablesA), b \in 1..Len(TablesB), c \in 1..Len(TablesC) }

lsoa21cd == <<"l", "s", "o", "a", "2", "1", "c", "d">>
\* the arguments of the run_graph calls: starting_column, ending_column,
\* local_authorities
Queries ==
    { <<WD22CD, OA21CD, <<"Lewisham">>>>,
      <<WD22CD, LAD22NM, <<"Lewisham">>>>,
      <<lsoa21cd, OA21CD, <<"Lewisham">>>>,
      <<RGN22CD, OA21CD, <<"Lewisham">>>>,
      <<WD22CD, OA21CD, <<>>>> }

(***************************************************************************)
(* State                                                                   *)
(***************************************************************************)
VARIABLES
    files_and_folders,          \* self.files_and_folders
    using_max_values,           \* self.using_max_values
    local_authority_constraint, \* self.local_authority_constraint
    hash_seed,                  \* which of HashOrders this process lists sets in
    starting_column,            \* self.starting_column
    ending_column,              \* self.ending_column
    local_authorities,          \* self.local_authorities
    graph,                      \* self.graph
    table_column_pairs,         \* self.table_column_pairs
    starting_points,            \* self.starting_points
    shortest_paths,             \* self.shortest_paths
    end_options,                \* what find_paths printed in the last call: print(end_options)
    all_paths,                  \* what find_paths returned in the last call
    outcome,                    \* the last call, [op, raised], or the change of the lookup
                                \* directory that came after it
    final_tables_to_return,     \* what get_filtered_geocodes returned in the last call
    printed,                    \* what the last call printed: the cache message of __init__,
                                \* the warnings of get_filtered_geocodes
    frame,                      \* the locals of a find_paths call that is running
    lookups,                    \* the files of the lookup directory
    json_file,                  \* the cache file of the lookup directory, Unset when there is none
    year_options,               \* self.year_options of a GeoHelper
    selected_year,              \* the year argument of the last available_geographies call
    geocode_columns,            \* what available_geographies returned in the last call
    qualifier_dicts,            \* the dict objects passed as qualifiers: those of the caller
                                \* and the default of table_to_csv and of table_to_pandas
    url,                        \* self.url of a DownloadFromNomis
    server,                     \* the records the portal holds for every link of the service
    feature_server,             \* self.feature_server of a FeatureServer
    responses                   \* what download returned in the last call

vars == <<files_and_folders, using_max_values, local_authority_constraint, hash_seed,
          starting_column, ending_column, local_authorities, graph, table_column_pairs,
          starting_points, shortest_paths, end_options, all_paths, outcome,
          final_tables_to_return, printed, frame, lookups, json_file, year_options,
          selected_year, geocode_columns, qualifier_dicts, url, server, feature_server,
          responses>>

\* the state of the clients of the remote services
remote == <<qualifier_dicts, url, server, feature_server, responses>>

\* no DownloadFromNomis and no FeatureServer is in use
NoRemote ==
    /\ qualifier_dicts = Unset
    /\ url = Unset
    /\ server = Unset
    /\ feature_server = Unset
    /\ responses = Unset

Returned(op) == [op |-> op, raised |-> "no"]
Raised(op, exc) == [op |-> op, raised |-> exc]

\* __init__ on a lookup directory without a cache file: the catalog is
\* scanned, written to the cache file and read from it
Constructed(dir, disk, max, lac, seed) ==
    /\ lookups = dir
    /\ files_and_folders = ConstructOrReadJsonFile(dir, disk, Unset).faf
    /\ json_file = ConstructOrReadJsonFile(dir, disk, Unset).json
    /\ year_options = Unset
    /\ selected_year = Unset
    /\ geocode_columns = Unset
    /\ using_max_values = max
    /\ local_authority_constraint = lac
    /\ hash_seed = seed
    /\ starting_column = Unset
    /\ ending_column = Unset
    /\ local_authorities = Unset
    /\ graph = Unset
    /\ table_column_pairs = Unset
    /\ starting_points = Unset
    /\ shortest_paths = Unset
    /\ end_options = Unset
    /\ all_paths = Unset
    /\ final_tables_to_return = Unset
    /\ printed = <<NoJsonFileFound>>
    /\ frame = Unset
    /\ outcome = Returned("__init__")
    /\ NoRemote

Init ==
    \E dir \in Directories, max \in BOOLEAN, lac \in BOOLEAN, seed \in 1..Len(HashOrders) :
        Constructed(dir, Disk, max, lac, seed)

(***************************************************************************)
(* run_graph                                                               *)
(***************************************************************************)
\* find_shortest_paths and the find_paths it calls, from the attributes
\* run_graph has set; sp is self.starting_points
FindShortestPathsCall(g, pairs, sp, ec) ==
    LET ends == EndOptions(pairs, ec, using_max_values)
        po == FindPaths(g, DictKeys(sp.items), ends)
    IN  /\ end_options' = Val(ends)
        /\ IF sp.none
           THEN \* self.starting_points.keys() on None
                /\ outcome' = Raised("run_graph", "AttributeError")
                /\ all_paths' = Unset
                /\ UNCHANGED shortest_paths
           ELSE IF Len(po) < 1
           THEN /\ outcome' = Raised("run_graph", "Exception: no connecting path")
                /\ all_paths' = Unset
                /\ UNCHANGED shortest_paths
           ELSE /\ all_paths' = Val(po)
                /\ shortest_paths' = Val(FindShortestPaths(po))
                /\ outcome' = Returned("run_graph")

RunGraph(sc, ec, las) ==
    /\ starting_column' = Val(Upper(sc))
    /\ ending_column' = Val(Upper(ec))
    /\ local_authorities' = Val(las)
    /\ final_tables_to_return' = Unset
    /\ printed' = <<>>
    /\ UNCHANGED <<json_file, year_options, selected_year, geocode_columns, remote>>
    /\ UNCHANGED <<files_and_folders, using_max_values, local_authority_constraint, hash_seed,
                   lookups, frame>>
    /\ IF Upper(sc) # <<>> /\ Upper(ec) # <<>> /\ las # <<>>
       THEN LET g == CreateGraph(files_and_folders, HashOrders[hash_seed])
                pairs == TableColumnPairs(files_and_folders)
                sp == IF local_authority_constraint
                      THEN GetStartingPoint(files_and_folders, Upper(sc))
                      ELSE GetStartingPointWithoutLA(files_and_folders, Upper(sc))
            IN  /\ graph' = Val(g)
                /\ table_column_pairs' = Val(pairs)
                /\ starting_points' = Val(sp)
                /\ FindShortestPathsCall(g, pairs, sp, Upper(ec))
       ELSE /\ outcome' = Raised("run_graph", "Exception: missing parameters")
            /\ end_options' = Unset
            /\ all_paths' = Unset
            /\ UNCHANGED <<graph, table_column_pairs, starting_points, shortest_paths>>

Next ==
    \E q \in Queries : RunGraph(q[1], q[2], q[3])

Spec == Init /\ [][Next]_vars

(***************************************************************************)
(* The join executor: filter_by_local_authority, join_tables and           *)
(* get_filtered_geocodes.  A call that can raise gives [raised, df].       *)
(***************************************************************************)
EmptyFrame == [columns |-> <<>>, rows |-> <<>>]
Done(df) == [raised |-> "no", df |-> df]
Fail(exc) == [raised |-> exc, df |-> EmptyFrame]

\* df.dropna(axis='columns', how='all'): a column stays if some row holds a
\* value in it
DropNaColumns(df) ==
    LET keep == SelectSeq([i \in 1..Len(df.columns) |-> i],
                          LAMBDA i : \E r \in 1..Len(df.rows) : df.rows[r][i] # NaN)
    IN  [columns |-> [k \in 1..Len(keep) |-> df.columns[keep[k]]],
         rows |-> [r \in 1..Len(df.rows) |-> [k \in 1..Len(keep) |-> df.rows[r][keep[k]]]]]

\* a drop_duplicates that keeps every row
DropDuplicatesKeepingAll(df) == df

\* df.drop_duplicates(): the first of equal rows stays
DropDuplicates(df) ==
    LET keep == SelectSeq([i \in 1..Len(df.rows) |-> i],
                          LAMBDA i : \A j \in 1..(i - 1) : df.rows[j] # df.rows[i])
    IN  [columns |-> df.columns, rows |-> [k \in 1..Len(keep) |-> df.rows[keep[k]]]]

\* a filter that keeps every row
FilterIsInEveryRow(df, col, values) == df

\* df[df[col].isin(values)]
FilterIsIn(df, col, values) ==
    LET c == ColumnIndex(df, col)
    IN  [columns |-> df.columns,
         rows |-> SelectSeq(df.rows, LAMBDA row : Contains(values, row[c]))]

\* left.merge(right, on=on, how='left', suffixes=('', '_DROP'))
\*     .filter(regex='^(?!.*_DROP)'):
\* a column of right that left has too is renamed with _DROP and filtered out
Merge(left, right, on) ==
    IF ~Contains(left.columns, on) \/ ~Contains(right.columns, on) THEN Fail("KeyError")
    ELSE
      LET lk == ColumnIndex(left, on)
          rk == ColumnIndex(right, on)
          added == SelectSeq([i \in 1..Len(right.columns) |-> i],
                             LAMBDA i : ~Contains(left.columns, right.columns[i]))
          matches(lrow) == SelectSeq(right.rows, LAMBDA rrow : rrow[rk] = lrow[lk])
          joined(lrow) ==
              IF matches(lrow) = <<>>
              THEN << lrow \o [k \in 1..Len(added) |-> NaN] >>
              ELSE [m \in 1..Len(matches(lrow)) |->
                       lrow \o [k \in 1..Len(added) |-> matches(lrow)[m][added[k]]]]
      IN  Done([columns |-> left.columns \o [k \in 1..Len(added) |-> right.columns[added[k]]],
                rows |-> Flatten([r \in 1..Len(left.rows) |-> joined(left.rows[r])])])

\* what the executor reads of the instance and of the disk: self.files_and_folders
\* (faf), the files of the lookup directory (dir) and their contents (disk),
\* self.local_authority_constraint (lac), self.starting_points (sp),
\* self.local_authorities (las) and the order this process lists sets in
Env(faf, dir, disk, lac, sp, las, order) ==
    [faf |-> faf, dir |-> dir, disk |-> disk, lac |-> lac, sp |-> sp, las |-> las,
     order |-> order]

\* local_auth_columns_present_in_joined_table of filter_by_local_authority
LocalAuthColumnsPresent(columns, sp, order) ==
    LET nm == UNION {Range(sp.items[k].value.la_nm_columns) : k \in 1..Len(sp.items)}
        all_local_auth_columns == SelectSeq(order, LAMBDA c : c \in nm)
    IN  Flatten([p \in 1..Len(all_local_auth_columns) |->
            SelectSeq(columns, LAMBDA joined_column :
                all_local_auth_columns[p] =
                    Prefix(joined_column, Len(all_local_auth_columns[p])))])

\* the rest of filter_by_local_authority, from chosen_local_auth_column on
FilterByChosenColumn(table_to_filter, present, las) ==
    IF present = <<>> THEN Fail("IndexError")
    ELSE Done(DropDuplicates(FilterIsIn(table_to_filter, present[1], las)))

\* filter_by_local_authority
FilterByLocalAuthority(table_to_filter, env) ==
    IF env.sp.none THEN Fail("AttributeError")
    ELSE FilterByChosenColumn(table_to_filter,
             LocalAuthColumnsPresent(table_to_filter.columns, env.sp, env.order), env.las)

\* directory_locations[name]: the last folder of the catalog that lists name
LocateFile(faf, name) ==
    LET i == CHOOSE i \in 1..Len(faf) :
                /\ faf[i].name = name
                /\ \A j \in (i + 1)..Len(faf) : faf[j].name # name
    IN  faf[i].folder

\* the file of the lookup directory at folder/name
FileAt(dir, folder, name) ==
    dir[CHOOSE i \in 1..Len(dir) : dir[i].folder = folder /\ dir[i].name = name]

OpenFile(file, disk) == OpenTableAsPandas(file, disk[file.content]).df

\* open_table_as_pandas(directory_locations[name])
OpenLocated(env, name) ==
    OpenFile(FileAt(env.dir, LocateFile(env.faf, name), name), env.disk)

UpperColumns(df) ==
    [columns |-> [i \in 1..Len(df.columns) |-> Upper(df.columns[i])], rows |-> df.rows]

\* the loop of join_tables over shortest_path[1:], from hop k on; JoinNext
\* is the loop after the merge of hop k
RECURSIVE JoinFrom(_, _, _, _)
RECURSIVE JoinNext(_, _, _, _)
JoinFrom(first_table, shortest_path, k, env) ==
    IF k > Len(shortest_path) THEN Done(first_table)
    ELSE JoinNext(Merge(first_table,
                        UpperColumns(OpenLocated(env, shortest_path[k].table)),
                        shortest_path[k].via),
                  shortest_path, k, env)

JoinNext(merged, shortest_path, k, env) ==
    IF merged.raised # "no" THEN merged
    ELSE JoinFrom(merged.df, shortest_path, k + 1, env)

\* if 'OBJECTID' in first_table.columns: first_table.drop(columns=['OBJECTID'])
DropObjectId(joined) ==
    IF joined.raised # "no" THEN joined
    ELSE Done(IF Contains(joined.df.columns, OBJECTID)
              THEN DropColumn(joined.df, OBJECTID) ELSE joined.df)

\* join_tables from the upper-casing of the first table's columns on
JoinOnto(first_table, shortest_path, env) ==
    IF first_table.raised # "no" THEN first_table
    ELSE DropObjectId(JoinFrom(UpperColumns(first_table.df), shortest_path, 2, env))

\* join_tables
JoinTables(shortest_path, env) ==
    JoinOnto(IF env.lac
             THEN FilterByLocalAuthority(OpenLocated(env, shortest_path[1].table), env)
             ELSE Done(OpenLocated(env, shortest_path[1].table)),
             shortest_path, env)

NoLimitWarning == "Couldn't limit the data to listed local authorities, returning full table"

\* la_cd_col_subset of get_filtered_geocodes
LaNameColumnsOf(joined_table) ==
    Flatten([l \in 1..Len(la_possibilities) |->
        SelectSeq(joined_table.columns, LAMBDA final_table_col :
            /\ Contains(la_possibilities, Upper(Prefix(final_table_col, Len(la_possibilities[l]))))
            /\ Upper(Suffix(final_table_col, 2)) = NM)])

Appended(tables, prints) == [raised |-> "no", tables |-> tables, printed |-> prints]
Aborted(exc) == [raised |-> exc, tables |-> <<>>, printed |-> <<>>]

\* the body of the try of get_filtered_geocodes from la_cd_col_subset[0] on;
\* limited is joined_table[joined_table[la_cd_col_subset[0]].isin(...)]
LimitedOrFull(joined_table, limited) ==
    IF Len(limited.rows) > 0 THEN Appended(<<limited>>, <<>>)
    ELSE Appended(<<joined_table>>, <<NoLimitWarning>>)

\* a multi-table route of get_filtered_geocodes, after joined_table.dropna
FilterJoinedTable(joined_table, la_cd_col_subset, las) ==
    IF las = <<>> THEN Appended(<<joined_table>>, <<>>)
    ELSE IF la_cd_col_subset = <<>>
    THEN \* la_cd_col_subset[0]: not the KeyError the try expects
         Aborted("IndexError")
    ELSE LimitedOrFull(joined_table, FilterIsIn(joined_table, la_cd_col_subset[1], las))

\* a multi-table route of get_filtered_geocodes, after join_tables
AfterJoin(joined, las) ==
    IF joined.raised # "no" THEN Aborted(joined.raised)
    ELSE FilterJoinedTable(DropNaColumns(DropDuplicates(joined.df)),
                           LaNameColumnsOf(DropNaColumns(DropDuplicates(joined.df))), las)

\* a single-table route of get_filtered_geocodes, after open_df.dropna
SingleTable(open_df, env) ==
    IF env.lac
    THEN [raised |-> FilterByLocalAuthority(open_df, env).raised,
          tables |-> <<FilterByLocalAuthority(open_df, env).df>>, printed |-> <<>>]
    ELSE Appended(<<open_df>>, <<>>)

\* one pass of the loop of get_filtered_geocodes: what it appends to
\* final_tables_to_return and what it prints, as [raised, tables, printed]
TablesForRoute(shortest_path, env) ==
    IF Len(shortest_path) = 1
    THEN SingleTable(DropNaColumns(OpenLocated(env, shortest_path[1].table)), env)
    ELSE AfterJoin(JoinTables(shortest_path, env), env.las)

\* the loop of get_filtered_geocodes over self.shortest_paths[:n_first_routes],
\* from route k on; TablesNext is the loop after the pass for route k
RECURSIVE TablesFrom(_, _, _, _)
RECURSIVE TablesNext(_, _, _, _, _)
TablesFrom(paths, k, acc, env) ==
    IF k > Len(paths) THEN acc
    ELSE TablesNext(TablesForRoute(paths[k], env), paths, k, acc, env)

TablesNext(t, paths, k, acc, env) ==
    IF t.raised # "no" THEN [raised |-> t.raised, tables |-> <<>>, printed |-> acc.printed]
    ELSE TablesFrom(paths, k + 1,
                    Appended(acc.tables \o t.tables, acc.printed \o t.printed), env)

(***************************************************************************)
(* get_filtered_geocodes                                                   *)
(***************************************************************************)
DefaultFirstRoutes == 3
RouteCounts == {1, DefaultFirstRoutes}

QueriesExec ==
    { <<WD22CD, OA21CD, <<"Lewisham">>>>,
      <<LAD22CD, LSOA21CD, <<"Lewisham">>>>,
      <<LAD22CD, LSOA21CD, <<"Bromley">>>>,
      <<WD22CD, OA21CD, <<>>>> }

\* self.shortest_paths[:n_first_routes]
FirstRoutes(paths, n_first_routes) ==
    SubSeq(paths, 1, IF Len(paths) < n_first_routes THEN Len(paths) ELSE n_first_routes)

\* what the executor reads, in the current state
InstanceEnv ==
    Env(files_and_folders, lookups, Disk, local_authority_constraint,
        starting_points.v, local_authorities.v, HashOrders[hash_seed])

\* the return or the raise of get_filtered_geocodes; r is what its loop made
GetFilteredGeocodesEnds(r) ==
    /\ printed' = r.printed
    /\ IF r.raised = "no"
       THEN /\ outcome' = Returned("get_filtered_geocodes")
            /\ final_tables_to_return' = Val(r.tables)
       ELSE /\ outcome' = Raised("get_filtered_geocodes", r.raised)
            /\ final_tables_to_return' = Unset

GetFilteredGeocodes(n_first_routes) ==
    /\ UNCHANGED <<json_file, year_options, selected_year, geocode_columns, remote>>
    /\ UNCHANGED <<files_and_folders, using_max_values, local_authority_constraint, hash_seed,
                   starting_column, ending_column, local_authorities, graph,
                   table_column_pairs, starting_points, shortest_paths, end_options,
                   all_paths, lookups, frame>>
    /\ IF ~shortest_paths.set
       THEN \* self.shortest_paths before any run_graph has set it
            /\ outcome' = Raised("get_filtered_geocodes", "AttributeError")
            /\ final_tables_to_return' = Unset
            /\ printed' = <<>>
       ELSE GetFilteredGeocodesEnds(
                TablesFrom(FirstRoutes(shortest_paths.v, n_first_routes), 1,
                           Appended(<<>>, <<>>), InstanceEnv))

NextExec ==
    \/ \E q \in QueriesExec : RunGraph(q[1], q[2], q[3])
    \/ \E n \in RouteCounts : GetFilteredGeocodes(n)

SpecExec == Init /\ [][NextExec]_vars

(***************************************************************************)
(* The three-table scenario: run_graph and get_filtered_geocodes on the    *)
(* lookup directory of WARD, LSOA and OA                                   *)
(***************************************************************************)
InitScenario ==
    \E dir \in ScenarioDirectories, max \in BOOLEAN, lac \in BOOLEAN,
       seed \in 1..Len(HashOrders) :
        Constructed(dir, Disk, max, lac, seed)

NextScenario ==
    \/ RunGraph(WD22CD, OA21CD, <<"Lewisham">>)
    \/ \E n \in RouteCounts : GetFilteredGeocodes(n)

SpecScenario == InitScenario /\ [][NextScenario]_vars

(***************************************************************************)
(* The join tables: run_graph from id to z and get_filtered_geocodes on    *)
(* the lookup directory of A, B and C                                      *)
(***************************************************************************)
\* the instances are built with the default flags
InitJoin == \E dir \in JoinDirectories : Constructed(dir, Disk, FALSE, TRUE, 1)

NextJoin ==
    \/ RunGraph(OA21CD, WD22CD, <<"Lewisham">>)
    \/ GetFilteredGeocodes(DefaultFirstRoutes)

SpecJoin == InitJoin /\ [][NextJoin]_vars

(***************************************************************************)
(* The cache file and the GeoHelper: constructions, available_geographies  *)
(* and the changes of the lookup directory and of its cache file between   *)
(* them                                                                    *)
(***************************************************************************)
\* the characters of the column names, by code point
CodePoints ==
    << " ", "0", "1", "2", "3", "4", "5", "6", "7", "8", "9", "A", "B",
       "C", "D", "E", "F", "G", "H", "I", "J", "K", "L", "M", "N", "O",
       "P", "Q", "R", "S", "T", "U", "V", "W", "X", "Y", "Z", "_", "a",
       "b", "c", "d", "e", "f", "g", "h", "i", "j", "k", "l", "m", "n",
       "o", "p", "q", "r", "s", "t", "u", "v", "w", "x", "y", "z" >>

Ord(c) == CHOOSE i \in 1..Len(CodePoints) : CodePoints[i] = c

\* Python's order on strings: a < b
StrLess(a, b) ==
    ListLess([i \in 1..Len(a) |-> Ord(a[i])], [i \in 1..Len(b) |-> Ord(b[i])])

\* sorted(list(set(...))) of strings
Sorted(strings) ==
    [k \in 1..Cardinality(strings) |->
        CHOOSE x \in strings : Cardinality({y \in strings : StrLess(y, x)}) = k - 1]

\* get_available_geocodes: self is a GeoHelper, selected_year the tables of
\* one year of the catalog
GetAvailableGeocodes(selected_year_tables) ==
    Sorted({Upper(col) : col \in UNION {Range(selected_year_tables[i].useful_columns) :
                                            i \in 1..Len(selected_year_tables)}})

\* _tables_by_year: the tables of the year, None for a year the catalog has not
TablesByYear(faf, year) ==
    IF \E i \in 1..Len(faf) : faf[i].folder = year
    THEN [none |-> FALSE, tables |-> SelectSeq(faf, LAMBDA t : t.folder = year)]
    ELSE [none |-> TRUE, tables |-> <<>>]

\* available_geographies(year) for a year given: the assert of
\* _valid_year_choice, then selected_year_tables.keys() on what
\* _tables_by_year returned
AvailableGeographiesOfYear(faf, years, year) ==
    IF ~Contains(years, year) THEN [raised |-> "AssertionError", columns |-> <<>>]
    ELSE IF TablesByYear(faf, year).none THEN [raised |-> "AttributeError", columns |-> <<>>]
    ELSE [raised |-> "no", columns |-> GetAvailableGeocodes(TablesByYear(faf, year).tables)]

\* available_geographies() without a year: the loop over self.year_options
AvailableGeographiesOfAll(faf, years) ==
    IF \E k \in 1..Len(years) : TablesByYear(faf, years[k]).none
    THEN [raised |-> "AttributeError", columns |-> <<>>]
    ELSE [raised |-> "no",
          columns |-> Sorted(UNION {Range(GetAvailableGeocodes(TablesByYear(faf, years[k]).tables)) :
                                      k \in 1..Len(years)})]

\* the files a lookup directory of this specification is made of: two
\* tables in two folders and a file that is no table
CacheFiles ==
    << [folder |-> Folders[1], name |-> "T1.csv", ext |-> ".csv", content |-> 1],
       [folder |-> Folders[2], name |-> "T2.csv", ext |-> ".csv", content |-> 3],
       [folder |-> Folders[1], name |-> "notes.txt", ext |-> ".txt", content |-> 3] >>

\* what a table can be overwritten with
CacheContents == {1, 2}

\* the year arguments of available_geographies
Years == {Folders[1], Folders[2], "1999"}

InitCache ==
    \E dir \in {<<>>, <<CacheFiles[1]>>, <<CacheFiles[1], CacheFiles[2]>>} :
        Constructed(dir, Disk, FALSE, TRUE, 1)

\* the end of __init__: r is what _construct_or_read_json_file did.  When it
\* raises there is no new instance, and the attributes are those of the
\* instance there was
ConstructEnds(helper, r) ==
    /\ json_file' = r.json
    /\ printed' = r.printed
    /\ UNCHANGED <<lookups, hash_seed, frame, remote>>
    /\ IF r.raised = "no"
       THEN /\ outcome' = Returned("__init__")
            /\ files_and_folders' = r.faf
            /\ using_max_values' = FALSE
            /\ local_authority_constraint' = TRUE
            /\ starting_column' = Unset
            /\ ending_column' = Unset
            /\ local_authorities' = Unset
            /\ graph' = Unset
            /\ table_column_pairs' = Unset
            /\ starting_points' = Unset
            /\ shortest_paths' = Unset
            /\ end_options' = Unset
            /\ all_paths' = Unset
            /\ final_tables_to_return' = Unset
            /\ selected_year' = Unset
            /\ geocode_columns' = Unset
            /\ year_options' = IF helper THEN Val(FolderNames(lookups)) ELSE Unset
       ELSE /\ outcome' = Raised("__init__", r.raised)
            /\ UNCHANGED <<files_and_folders, using_max_values, local_authority_constraint,
                           starting_column, ending_column, local_authorities, graph,
                           table_column_pairs, starting_points, shortest_paths,
                           end_options, all_paths, final_tables_to_return,
                           selected_year, geocode_columns, year_options>>

\* SmartGeocodeLookup() or, helper, GeoHelper(): __init__ with its defaults
\* on the lookup directory and the cache file as they are
Construct(helper) ==
    ConstructEnds(helper, ConstructOrReadJsonFile(lookups, Disk, json_file))

\* the return or the raise of available_geographies
AvailableGeographiesEnds(r) ==
    /\ printed' = <<>>
    /\ IF r.raised = "no"
       THEN /\ outcome' = Returned("available_geographies")
            /\ geocode_columns' = Val(r.columns)
       ELSE /\ outcome' = Raised("available_geographies", r.raised)
            /\ geocode_columns' = Unset

InstanceOnly ==
    UNCHANGED <<files_and_folders, using_max_values, local_authority_constraint, hash_seed,
                starting_column, ending_column, local_authorities, graph,
                table_column_pairs, starting_points, shortest_paths, end_options,
                all_paths, final_tables_to_return, frame, year_options, remote>>

\* available_geographies(year) on a GeoHelper; year Unset is the call
\* without a year
AvailableGeographies(year) ==
    /\ year_options.set
    /\ selected_year' = year
    /\ InstanceOnly
    /\ UNCHANGED <<lookups, json_file>>
    /\ AvailableGeographiesEnds(
          IF year.set
          THEN AvailableGeographiesOfYear(files_and_folders, year_options.v, year.v)
          ELSE AvailableGeographiesOfAll(files_and_folders, year_options.v))

\* the lookup directory or its cache file changes between the calls: no
\* call is the last operation any more
Changed ==
    /\ outcome' = Returned("change of the lookup directory")
    /\ printed' = <<>>
    /\ selected_year' = Unset
    /\ geocode_columns' = Unset
    /\ InstanceOnly

\* the file CacheFiles[k] is added; iterdir lists the files in the order of
\* CacheFiles
AddTable(k) ==
    /\ \A i \in 1..Len(lookups) : lookups[i].name # CacheFiles[k].name
    /\ lookups' = SelectSeq(lookups, LAMBDA f : \E j \in 1..(k - 1) : f.name = CacheFiles[j].name)
                   \o <<CacheFiles[k]>>
                   \o SelectSeq(lookups, LAMBDA f : \E j \in (k + 1)..Len(CacheFiles) :
                                                      f.name = CacheFiles[j].name)
    /\ UNCHANGED json_file
    /\ Changed

RemoveTable(i) ==
    /\ lookups' = SubSeq(lookups, 1, i - 1) \o SubSeq(lookups, i + 1, Len(lookups))
    /\ UNCHANGED json_file
    /\ Changed

\* a table that holds one of CacheContents is overwritten with another
ChangeTable(i, content) ==
    /\ Supported(lookups[i])
    /\ lookups[i].content \in CacheContents \ {content}
    /\ lookups' = [lookups EXCEPT ![i].content = content]
    /\ UNCHANGED json_file
    /\ Changed

DeleteCache ==
    /\ json_file.set
    /\ json_file' = Unset
    /\ UNCHANGED lookups
    /\ Changed

\* the cache file is left with a text that does not parse
TruncateCache ==
    /\ json_file.set
    /\ json_file.v.wellformed
    /\ json_file' = Val([json_file.v EXCEPT !.wellformed = FALSE])
    /\ UNCHANGED lookups
    /\ Changed

NextCache ==
    \/ \E helper \in BOOLEAN : Construct(helper)
    \/ \E year \in {Unset} \cup {Val(y) : y \in Years} : AvailableGeographies(year)
    \/ \E k \in 1..Len(CacheFiles) : AddTable(k)
    \/ \E i \in 1..Len(lookups) : RemoveTable(i)
    \/ \E i \in 1..Len(lookups), content \in CacheContents : ChangeTable(i, content)
    \/ DeleteCache
    \/ TruncateCache

SpecCache == InitCache /\ [][NextCache]_vars

(***************************************************************************)
(* run_graph step by step, on lookup directories whose tables form a       *)
(* chain: table i shares one code column with table i + 1, the first       *)
(* table carries WD22CD and the last OA21CD.  A step is the code up to the  *)
(* next pass of the while loop of BFS_SP or of the loops of find_paths.    *)
(***************************************************************************)
\* tables in the longest chain
MaxChain == 100
ChainLengths == {3, MaxChain}

DigitChars == <<"0", "1", "2", "3", "4", "5", "6", "7", "8", "9">>

RECURSIVE Digits(_)
Digits(i) ==
    IF i < 10 THEN <<DigitChars[i + 1]>>
    ELSE Digits(i \div 10) \o <<DigitChars[(i % 10) + 1]>>

\* the code column tables i and i + 1 of a chain share
LinkColumn(i) == <<"X">> \o Digits(i) \o CD

ChainTable(i, n) ==
    [columns |-> (IF i = 1 THEN <<WD22CD>> ELSE <<LinkColumn(i - 1)>>)
                 \o (IF i = n THEN <<OA21CD>> ELSE <<LinkColumn(i)>>),
     rows |-> << <<"A", "B">> >>]

ChainTables(n) == [i \in 1..n |-> ChainTable(i, n)]

ChainDirectory(n) ==
    [i \in 1..n |-> [folder |-> "2021", name |-> "C" \o ToString(i) \o ".csv",
                     ext |-> ".csv", content |-> i]]

ChainColumns(n) == <<WD22CD>> \o [i \in 1..(n - 1) |-> LinkColumn(i)] \o <<OA21CD>>
ChainHashOrders(n) == <<ChainColumns(n), Reverse(ChainColumns(n))>>

InitChain ==
    \E n \in ChainLengths, seed \in 1..2 :
        Constructed(ChainDirectory(n), ChainTables(n), FALSE, FALSE, seed)

\* the locals of find_paths: the positions s, e of its two loops,
\* path_options, path_options[start_table] (found) and, while BFS_SP runs,
\* its locals queue and explored (bfs)
Frame(s, e, path_options, found, bfs) ==
    [s |-> s, e |-> e, path_options |-> path_options, found |-> found, bfs |-> bfs]

StartTables == DictKeys(starting_points.v.items)

\* run_graph up to the first pass of the loops of find_paths, in a process
\* that lists sets of columns in the given order
BeginRunGraph(sc, ec, las, order) ==
    /\ ~frame.set
    /\ starting_column' = Val(Upper(sc))
    /\ ending_column' = Val(Upper(ec))
    /\ local_authorities' = Val(las)
    /\ final_tables_to_return' = Unset
    /\ printed' = <<>>
    /\ all_paths' = Unset
    /\ UNCHANGED <<json_file, year_options, selected_year, geocode_columns, remote>>
    /\ UNCHANGED <<files_and_folders, using_max_values, local_authority_constraint, hash_seed,
                   lookups, shortest_paths>>
    /\ IF Upper(sc) # <<>> /\ Upper(ec) # <<>> /\ las # <<>>
       THEN LET g == CreateGraph(files_and_folders, order)
                pairs == TableColumnPairs(files_and_folders)
                sp == IF local_authority_constraint
                      THEN GetStartingPoint(files_and_folders, Upper(sc))
                      ELSE GetStartingPointWithoutLA(files_and_folders, Upper(sc))
            IN  /\ graph' = Val(g)
                /\ table_column_pairs' = Val(pairs)
                /\ starting_points' = Val(sp)
                /\ end_options' = Val(EndOptions(pairs, Upper(ec), using_max_values))
                /\ IF sp.none
                   THEN /\ outcome' = Raised("run_graph", "AttributeError")
                        /\ frame' = Unset
                   ELSE /\ outcome' = [op |-> "run_graph", raised |-> "running"]
                        /\ frame' = Val(Frame(1, 1, <<>>, <<>>, Unset))
       ELSE /\ outcome' = Raised("run_graph", "Exception: missing parameters")
            /\ end_options' = Unset
            /\ frame' = Unset
            /\ UNCHANGED <<graph, table_column_pairs, starting_points>>

FrameOnly ==
    UNCHANGED <<files_and_folders, using_max_values, local_authority_constraint, hash_seed,
                starting_column, ending_column, local_authorities, graph,
                table_column_pairs, starting_points, shortest_paths, end_options,
                all_paths, outcome, final_tables_to_return, printed, lookups, json_file,
                year_options, selected_year, geocode_columns, remote>>

\* path_options[start_table][end_table] = shortest_path, and on to the next
\* end table
Recorded(f, result) ==
    Frame(f.s, f.e + 1, f.path_options,
          IF result = NoConnectingPath THEN f.found
          ELSE DictPut(f.found, end_options.v[f.e], result),
          Unset)

\* BFS_SP(self.graph, start_table, end_table) up to its while loop
CallBFS ==
    /\ frame.set /\ ~frame.v.bfs.set
    /\ frame.v.s <= Len(StartTables) /\ frame.v.e <= Len(end_options.v)
    /\ LET start == StartTables[frame.v.s]
           goal == end_options.v[frame.v.e]
       IN  frame' = Val(IF start = goal THEN Recorded(frame.v, NoneResult)
                        ELSE [frame.v EXCEPT !.bfs =
                                 Val([queue |-> <<<<StartNode(start)>>>>, explored |-> <<>>])])
    /\ FrameOnly

\* one pass of the while loop of BFS_SP, or its end
BFSStep ==
    /\ frame.set /\ frame.v.bfs.set
    /\ LET b == frame.v.bfs.v
           it == BFSIter(graph.v, end_options.v[frame.v.e], b.queue, b.explored)
       IN  frame' = Val(IF b.queue = <<>> THEN Recorded(frame.v, NoConnectingPath)
                        ELSE IF it.done THEN Recorded(frame.v, it.result)
                        ELSE [frame.v EXCEPT !.bfs =
                                 Val([queue |-> it.queue, explored |-> it.explored])])
    /\ FrameOnly

\* the end of the loop over end_options: a start table that reached no end
\* table is popped
NextStartTable ==
    /\ frame.set /\ ~frame.v.bfs.set
    /\ frame.v.s <= Len(StartTables) /\ frame.v.e > Len(end_options.v)
    /\ frame' = Val(Frame(frame.v.s + 1, 1,
                          IF Len(frame.v.found) < 1 THEN frame.v.path_options
                          ELSE Append(frame.v.path_options,
                                      [key |-> StartTables[frame.v.s], value |-> frame.v.found]),
                          <<>>, Unset))
    /\ FrameOnly

\* the end of find_paths and the rest of find_shortest_paths
FinishRunGraph ==
    /\ frame.set /\ ~frame.v.bfs.set
    /\ frame.v.s > Len(StartTables)
    /\ frame' = Unset
    /\ IF Len(frame.v.path_options) < 1
       THEN /\ outcome' = Raised("run_graph", "Exception: no connecting path")
            /\ UNCHANGED <<all_paths, shortest_paths>>
       ELSE /\ all_paths' = Val(frame.v.path_options)
            /\ shortest_paths' = Val(FindShortestPaths(frame.v.path_options))
            /\ outcome' = Returned("run_graph")
    /\ UNCHANGED <<json_file, year_options, selected_year, geocode_columns, remote>>
    /\ UNCHANGED <<files_and_folders, using_max_values, local_authority_constraint, hash_seed,
                   starting_column, ending_column, local_authorities, graph,
                   table_column_pairs, starting_points, end_options,
                   final_tables_to_return, printed, lookups>>

QueriesChain == { <<WD22CD, OA21CD, <<"Lewisham">>>> }

NextChain ==
    \/ \E q \in QueriesChain :
          BeginRunGraph(q[1], q[2], q[3], ChainHashOrders(Len(files_and_folders))[hash_seed])
    \/ CallBFS
    \/ BFSStep
    \/ NextStartTable
    \/ FinishRunGraph

SpecChain == InitChain /\ [][NextChain]_vars

(***************************************************************************)
(* The search of run_graph pass by pass on the lookup directories of up to *)
(* MaxTables tables.  The loop of BFS_SP is the only code that runs while  *)
(* a call of BFS_SP is open, so its passes are taken one after the other.  *)
(***************************************************************************)
InitSearch ==
    \E dir \in Directories, lac \in BOOLEAN, seed \in 1..Len(HashOrders) :
        Constructed(dir, Disk, FALSE, lac, seed)

NextSearch ==
    \/ \E q \in Queries : BeginRunGraph(q[1], q[2], q[3], HashOrders[hash_seed])
    \/ CallBFS
    \/ BFSStep
    \/ NextStartTable
    \/ FinishRunGraph

SpecSearch == InitSearch /\ [][NextSearch]_vars /\ WF_vars(BFSStep)

(***************************************************************************)
(* Properties of the resolver                                              *)
(***************************************************************************)
RunGraphReturned == outcome = Returned("run_graph")

\* no two files of the lookup directory have the same name
DistinctFileNames ==
    \A i, j \in 1..Len(lookups) : lookups[i].name = lookups[j].name => i = j

\* the tables within k edges of table s in the join graph g
RECURSIVE ReachSet(_, _, _)
ReachSet(g, s, k) ==
    IF k = 0 THEN {s}
    ELSE LET r == ReachSet(g, s, k - 1)
         IN  r \cup UNION {{g[t][i].table : i \in 1..Len(g[t])} : t \in r}

\* the least number of edges from s to e in g; -1 when there is no path
Hops(g, s, e) ==
    LET ks == {k \in 0..Cardinality(DOMAIN g) : e \in ReachSet(g, s, k)}
    IN  IF ks = {} THEN -1 ELSE CHOOSE k \in ks : \A j \in ks : k <= j

\* the hop counts of the connected (start table, end table) pairs of the last query
PairHops ==
    {Hops(graph.v, s, e) : s \in Range(DictKeys(starting_points.v.items)),
                           e \in Range(end_options.v)} \ {-1}

\* C1: every route run_graph returns has as many hops as the least number of
\* edges between any candidate start table and any candidate end table of the
\* query: no connecting path with fewer hops exists in the join graph
C1_RouteMinimality ==
    RunGraphReturned =>
        \A r \in Range(shortest_paths.v) :
            /\ (Len(r) - 1) \in PairHops
            /\ \A h \in PairHops : Len(r) - 1 <= h

\* a query answered by one-hop routes although a pair two hops apart connects too
C1_Witness ==
    /\ RunGraphReturned
    /\ \E r \in Range(shortest_paths.v) : Len(r) = 2
    /\ 2 \in PairHops

\* C2: for every two catalog tables and every code column both carry, the
\* join graph holds the edge (second table, column) in the first table's
\* adjacency, one edge per shared column
C2_EveryTableEveryColumn ==
    graph.set =>
        \A i, j \in 1..Len(files_and_folders) :
            i # j =>
                \A c \in Range(files_and_folders[i].useful_columns)
                            \cap Range(files_and_folders[j].useful_columns) :
                    Contains(graph.v[files_and_folders[i].name],
                             [table |-> files_and_folders[j].name, via |-> c])

\* the routes run_graph returns for the stored query in a process that lists
\* sets in the order HashOrders[seed]; <<>> when it raises
RoutesUnder(seed) ==
    LET sc == starting_column.v
        g == CreateGraph(files_and_folders, HashOrders[seed])
        pairs == TableColumnPairs(files_and_folders)
        sp == IF local_authority_constraint
              THEN GetStartingPoint(files_and_folders, sc)
              ELSE GetStartingPointWithoutLA(files_and_folders, sc)
        po == FindPaths(g, DictKeys(sp.items),
                        EndOptions(pairs, ending_column.v, using_max_values))
    IN  IF sp.none \/ Len(po) < 1 THEN <<>> ELSE FindShortestPaths(po)

\* C3: with the catalog and its order fixed, run_graph with the same starting
\* column, ending column, local authorities and flags returns the same routes
\* in the same order, with the same join column on every hop, in every run.
\* (Stated for directories whose file names are distinct.)
C3_SameRoutesEveryRun ==
    (RunGraphReturned /\ DistinctFileNames) =>
        \A seed \in 1..Len(HashOrders) : RoutesUnder(seed) = shortest_paths.v

\* run_graph ran with all its parameters given
RunGraphSearched == outcome.op = "run_graph" /\ end_options.set

\* C4 as claimed: whenever some catalog table contains the starting column and
\* the ending column, run_graph returns at least one route of length 1
C4_AnyTableWithBoth ==
    (/\ RunGraphSearched
     /\ \E i \in 1..Len(files_and_folders) :
            /\ Contains(files_and_folders[i].columns, starting_column.v)
            /\ Contains(files_and_folders[i].columns, ending_column.v))
    => (RunGraphReturned /\ \E r \in Range(shortest_paths.v) : Len(r) = 1)

\* the tables that are start tables and end tables of the last query
StartAndEndTables ==
    Range(DictKeys(starting_points.v.items)) \cap Range(end_options.v)

\* C4, amended: whenever some catalog table is both a candidate start table
\* and a candidate end table of the query, run_graph returns at least one
\* route of length 1, made of such a table
C4_StartAndEndTable ==
    (RunGraphSearched /\ StartAndEndTables # {})
    => /\ RunGraphReturned
       /\ \E r \in Range(shortest_paths.v) :
              Len(r) = 1 /\ r[1].table \in StartAndEndTables

\* a table that is start and end table, met under the local-authority
\* constraint and in max-cardinality mode, with other tables in the catalog
C4_Witness ==
    /\ RunGraphReturned
    /\ local_authority_constraint
    /\ using_max_values
    /\ Len(files_and_folders) > 1
    /\ StartAndEndTables # {}
    /\ \E r \in Range(shortest_paths.v) : Len(r) = 1

\* column c names a local authority: prefix LAD, UTLA or LTLA, suffix NM
IsLocalAuthorityNameColumn(c) ==
    /\ \E la \in Range(la_possibilities) : Upper(Prefix(c, Len(la))) = la
    /\ Upper(Suffix(c, 2)) = NM

\* C6: under the local-authority constraint the start tables are exactly the
\* catalog tables whose code columns contain the starting column and which
\* carry a local-authority name column
C6_StartTablesCarryNameColumn ==
    (local_authority_constraint /\ starting_points.set) =>
        Range(DictKeys(starting_points.v.items)) =
            { files_and_folders[i].name : i \in
                { i \in 1..Len(files_and_folders) :
                    /\ Contains(files_and_folders[i].useful_columns, starting_column.v)
                    /\ \E c \in Range(files_and_folders[i].columns) :
                          IsLocalAuthorityNameColumn(c) } }

\* the greatest code-column cardinality over all tables of the catalog
MaxCardinality ==
    LET all == UNION {Range(files_and_folders[i].useful_columns_nunique) :
                        i \in 1..Len(files_and_folders)}
    IN  CHOOSE m \in all : \A x \in all : x <= m

\* C7: in max-cardinality mode the end tables are exactly the catalog tables
\* that contain the ending column and have a code column whose distinct-value
\* count is the greatest code-column cardinality of the catalog
C7_MaxCardinalityEndTables ==
    (using_max_values /\ end_options.set) =>
        Range(end_options.v) =
            { files_and_folders[i].name : i \in
                { i \in 1..Len(files_and_folders) :
                    /\ Contains(files_and_folders[i].columns, ending_column.v)
                    /\ MaxCardinality \in Range(files_and_folders[i].useful_columns_nunique) } }

\* C8 as claimed: in normal mode the end tables are exactly the catalog tables
\* whose full column list contains the ending column
C8_EndTablesByFullColumnList ==
    (~using_max_values /\ end_options.set) =>
        Range(end_options.v) =
            { files_and_folders[i].name : i \in
                { i \in 1..Len(files_and_folders) :
                    Contains(files_and_folders[i].columns, ending_column.v) } }

\* C8, amended: in normal mode the end tables are exactly the catalog tables
\* whose code columns contain the ending column
C8_EndTablesByCodeColumns ==
    (~using_max_values /\ end_options.set) =>
        Range(end_options.v) =
            { files_and_folders[i].name : i \in
                { i \in 1..Len(files_and_folders) :
                    Contains(files_and_folders[i].useful_columns, ending_column.v) } }

\* an ending column that a table carries, but not as a code column
C8_Witness ==
    /\ ~using_max_values
    /\ end_options.set
    /\ end_options.v = <<>>
    /\ \E i \in 1..Len(files_and_folders) :
          Contains(files_and_folders[i].columns, ending_column.v)

\* the per-pair results of find_paths as routes, in discovery order: a None
\* result stands for the route made of the start table alone
PairRoutes(paths) ==
    LET routes == RoutesOf(paths)
    IN  [k \in 1..Len(routes) |->
            IF routes[k].route.kind = "None" THEN <<StartNode(routes[k].start)>>
            ELSE routes[k].route.path]

MinimumLength(routes) ==
    CHOOSE n \in {Len(routes[k]) : k \in 1..Len(routes)} :
        \A k \in 1..Len(routes) : n <= Len(routes[k])

\* C5: after run_graph returned, the routes it left in shortest_paths are
\* exactly the per-pair results of find_paths whose length is the minimum over
\* all pairs, each once and in discovery order
C5_GlobalMinimumSelection ==
    RunGraphReturned =>
        shortest_paths.v = SelectSeq(PairRoutes(all_paths.v),
                               LAMBDA r : Len(r) = MinimumLength(PairRoutes(all_paths.v)))

(***************************************************************************)
(* Properties of the join executor                                         *)
(***************************************************************************)
GetFilteredGeocodesRan == outcome.op = "get_filtered_geocodes" /\ shortest_paths.set

\* none of the requested local authorities is a value of any lookup file
NoRequestedAuthorityInData ==
    /\ local_authorities.v # <<>>
    /\ \A i \in 1..Len(lookups) :
          LET df == Disk[lookups[i].content]
          IN  \A r \in 1..Len(df.rows) : \A c \in 1..Len(df.columns) :
                  ~Contains(local_authorities.v, df.rows[r][c])

\* the loaded or joined table of a route with no local-authority filtering
Unfiltered(shortest_path) ==
    TablesForRoute(shortest_path, [InstanceEnv EXCEPT !.lac = FALSE, !.las = <<>>])

\* the first table of every shortest route has a local-authority name column
FirstTablesCarryNameColumn ==
    \A k \in 1..Len(shortest_paths.v) :
        LaNameColumnsOf(OpenLocated(InstanceEnv, shortest_paths.v[k][1].table)) # <<>>

\* C9: after get_filtered_geocodes, when none of the requested local
\* authorities occurs in the data, the call has returned, for every route it
\* took, the whole loaded or joined table, and has printed a warning; no
\* returned table is empty.  (Stated for directories whose file names are
\* distinct, instances built with the local-authority constraint on, and
\* routes whose first table carries a local-authority name column.)
C9_FallbackToUnfilteredTable ==
    (GetFilteredGeocodesRan /\ DistinctFileNames /\ local_authority_constraint
        /\ FirstTablesCarryNameColumn /\ NoRequestedAuthorityInData) =>
        /\ outcome.raised = "no"
        /\ printed # <<>>
        /\ Len(final_tables_to_return.v) >= 1
        /\ \A k \in 1..Len(final_tables_to_return.v) :
              /\ final_tables_to_return.v[k].rows # <<>>
              /\ final_tables_to_return.v[k] = Unfiltered(shortest_paths.v[k]).tables[1]

\* the first route is a multi-table route whose joined table has no
\* local-authority name column
FirstJoinLacksNameColumn ==
    /\ Len(shortest_paths.v[1]) > 1
    /\ Unfiltered(shortest_paths.v[1]).raised = "no"
    /\ LaNameColumnsOf(Unfiltered(shortest_paths.v[1]).tables[1]) = <<>>

\* C10: after get_filtered_geocodes with local authorities requested, when
\* the joined table of a multi-table route has no local-authority name
\* column, the call has not raised, the unfiltered joined table of that route
\* is among the returned tables, and a warning has been printed.  (Stated for
\* directories whose file names are distinct.)
C10_MissingNameColumnRecovered ==
    (GetFilteredGeocodesRan /\ DistinctFileNames /\ local_authorities.v # <<>>
        /\ FirstJoinLacksNameColumn) =>
        /\ outcome.raised = "no"
        /\ printed # <<>>
        /\ Contains(final_tables_to_return.v, Unfiltered(shortest_paths.v[1]).tables[1])

(***************************************************************************)
(* Properties of the failures of run_graph                                 *)
(***************************************************************************)
\* run_graph ran with all its parameters given and found no start table
NoStartTableFound ==
    /\ outcome.op = "run_graph"
    /\ local_authorities.v # <<>>
    /\ starting_points.set
    /\ starting_points.v.none

\* C11: when no table is a candidate start table, run_graph fails at the
\* discovery of the start tables: it has raised, and find_paths has not been
\* entered (no end tables have been worked out or printed)
C11_FailsAtStartTableDiscovery ==
    NoStartTableFound => (outcome.raised # "no" /\ ~end_options.set)

\* run_graph found start tables and no end table
NoEndTableFound ==
    /\ RunGraphSearched
    /\ ~starting_points.v.none
    /\ end_options.v = <<>>

\* C12: when no table is a candidate end table, run_graph fails with an error
\* that is not the one it reports for start and end tables that are not
\* connected
C12_NoEndTableErrorOfItsOwn ==
    NoEndTableFound =>
        /\ outcome.raised # "no"
        /\ outcome # Raised("run_graph", "Exception: no connecting path")

\* run_graph searched for paths from at least one start table
PathsSearched == RunGraphSearched /\ ~starting_points.v.none

\* the (start table, end table) pairs of the last query that the join graph connects
ConnectedPairs ==
    {pr \in Range(DictKeys(starting_points.v.items)) \X Range(end_options.v) :
        Hops(graph.v, pr[1], pr[2]) # -1}

\* the pairs find_paths kept a result for
PairsOf(paths) ==
    UNION {{<<paths[s].key, paths[s].value[e].key>> : e \in 1..Len(paths[s].value)} :
              s \in 1..Len(paths)}

\* C13: run_graph fails with the no-connecting-path error exactly when the
\* join graph connects no (start table, end table) pair; when it returns, the
\* pairs it kept a result for are exactly the connected pairs, and every
\* returned route leads from a start table to an end table it is connected to
C13_FailsExactlyWhenNothingConnects ==
    PathsSearched =>
        /\ (outcome = Raised("run_graph", "Exception: no connecting path")) <=> (ConnectedPairs = {})
        /\ (outcome.raised = "no") <=> (ConnectedPairs # {})
        /\ RunGraphReturned =>
              /\ PairsOf(all_paths.v) = ConnectedPairs
              /\ \A r \in Range(shortest_paths.v) :
                    <<r[1].table, r[Len(r)].table>> \in ConnectedPairs

\* a query that returned routes although one of its pairs is not connected
C13_Witness ==
    /\ RunGraphReturned
    /\ ConnectedPairs # {}
    /\ \E pr \in Range(DictKeys(starting_points.v.items)) \X Range(end_options.v) :
          pr \notin ConnectedPairs

(***************************************************************************)
(* Properties of the three-table scenario and of the joins                 *)
(***************************************************************************)
\* __init__ with its defaults: end_column_max_value_search=False,
\* local_authority_constraint=True
DefaultFlags == local_authority_constraint /\ ~using_max_values

ScenarioRoute ==
    << [table |-> "WARD.csv", via |-> <<>>],
       [table |-> "LSOA.csv", via |-> WD22CD],
       [table |-> "OA.csv", via |-> LSOA21CD] >>

\* every row of df has value in column col
EveryRowHas(df, col, value) ==
    /\ Contains(df.columns, col)
    /\ \A r \in 1..Len(df.rows) : df.rows[r][ColumnIndex(df, col)] = value

\* C14: on the lookup directory of WARD(WD22CD, WD22NM, LAD22CD, LAD22NM),
\* LSOA(LSOA21CD, WD22CD) and OA(OA21CD, LSOA21CD), an instance built with the
\* default flags resolves run_graph(WD22CD, OA21CD, [Lewisham]) to the one
\* route WARD -> LSOA (via WD22CD) -> OA (via LSOA21CD), and
\* get_filtered_geocodes then returns one table, with rows, every row of
\* which has LAD22NM = Lewisham.  (starting_column is set once run_graph has
\* been called.)
C14_ScenarioRouteAndRows ==
    (DefaultFlags /\ starting_column.set) =>
        /\ outcome.raised = "no"
        /\ shortest_paths.set /\ shortest_paths.v = <<ScenarioRoute>>
        /\ final_tables_to_return.set =>
              /\ Len(final_tables_to_return.v) = 1
              /\ final_tables_to_return.v[1].rows # <<>>
              /\ EveryRowHas(final_tables_to_return.v[1], LAD22NM, "Lewisham")

C14_Witness ==
    /\ DefaultFlags
    /\ outcome = Returned("get_filtered_geocodes")
    /\ shortest_paths.v = <<ScenarioRoute>>
    /\ Len(final_tables_to_return.v[1].rows) > 1

\* what the lookup file of this name holds
TableNamed(name) == Disk[lookups[CHOOSE i \in 1..Len(lookups) : lookups[i].name = name].content]

ColumnValues(df, col) == {df.rows[r][ColumnIndex(df, col)] : r \in 1..Len(df.rows)}

\* the values of column col in the rows of df that have value key in column on
ValuesFor(df, on, key, col) ==
    {df.rows[r][ColumnIndex(df, col)] :
        r \in {q \in 1..Len(df.rows) : df.rows[q][ColumnIndex(df, on)] = key}}

RouteABC ==
    << [table |-> "A.csv", via |-> <<>>],
       [table |-> "B.csv", via |-> OA21CD],
       [table |-> "C.csv", via |-> LSOA21CD] >>

\* get_filtered_geocodes has executed the route A -> B on id -> C on y
RouteABCExecuted ==
    /\ outcome.op = "get_filtered_geocodes"
    /\ shortest_paths.set /\ shortest_paths.v = <<RouteABC>>

\* the table returned has exactly the columns id, x, y, z and as many rows as A
JoinedLikeA ==
    /\ outcome.raised = "no"
    /\ Len(final_tables_to_return.v) = 1
    /\ Range(final_tables_to_return.v[1].columns) = {OA21CD, LAD22NM, LSOA21CD, WD22CD}
    /\ Len(final_tables_to_return.v[1].columns) = 4
    /\ Len(final_tables_to_return.v[1].rows) = Len(TableNamed("A.csv").rows)

\* each id of A has a unique y in B
UniqueYPerId ==
    \A id \in ColumnValues(TableNamed("A.csv"), OA21CD) :
        Cardinality(ValuesFor(TableNamed("B.csv"), OA21CD, id, LSOA21CD)) = 1

\* C15 as stated: executing the route A(id, x) -> B(id, y) on id -> C(y, z)
\* on y gives a table with exactly the columns id, x, y, z and as many rows
\* as A, provided each id has a unique y in B.  (Stated for the calls that
\* return.)
C15_RowCountOfA ==
    (RouteABCExecuted /\ outcome.raised = "no" /\ UniqueYPerId) => JoinedLikeA

\* the rows of A are distinct, of the requested local authorities, and there
\* is one at least, each id of A has exactly one y in B and each of these y
\* has exactly one z in C
KeysAllTheWay ==
    /\ TableNamed("A.csv").rows # <<>>
    /\ ColumnValues(TableNamed("A.csv"), LAD22NM) \subseteq Range(local_authorities.v)
    /\ \A r, q \in 1..Len(TableNamed("A.csv").rows) :
          r # q => TableNamed("A.csv").rows[r] # TableNamed("A.csv").rows[q]
    /\ \A id \in ColumnValues(TableNamed("A.csv"), OA21CD) :
          /\ Cardinality(ValuesFor(TableNamed("B.csv"), OA21CD, id, LSOA21CD)) = 1
          /\ \A y \in ValuesFor(TableNamed("B.csv"), OA21CD, id, LSOA21CD) :
                Cardinality(ValuesFor(TableNamed("C.csv"), LSOA21CD, y, WD22CD)) = 1

\* C15 amended: executing the route A(id, x) -> B(id, y) on id -> C(y, z) on
\* y gives a table with exactly the columns id, x, y, z and as many rows as
\* A, provided the rows of A are distinct, not none and all of a requested
\* local authority, each id of A has exactly one y in B and each of these y
\* has exactly one z in C.
C15_RowCountOfAWithKeys == (RouteABCExecuted /\ KeysAllTheWay) => JoinedLikeA

C15_Witness ==
    /\ RouteABCExecuted
    /\ KeysAllTheWay
    /\ Len(TableNamed("A.csv").rows) = 2
    /\ Len(TableNamed("B.csv").rows) = 2
    /\ JoinedLikeA

(***************************************************************************)
(* Properties of the cache file and of the GeoHelper                       *)
(***************************************************************************)
AllSupported == \A i \in 1..Len(lookups) : Supported(lookups[i])

\* the last operation is an __init__ that found no cache file and scanned
ScannedLast == outcome.op = "__init__" /\ printed = <<NoJsonFileFound>>

\* C16: an __init__ that finds the cache file, holding what an __init__
\* wrote, returns, reads it and leaves the catalog and the cache file as they
\* were, whatever the lookup directory holds by then; the catalog changes
\* only in an __init__ that finds no cache file, which scans the lookup
\* directory and writes the cache file.
C16_CacheLifecycle ==
    [][ /\ (outcome'.op = "__init__" /\ json_file.set /\ json_file.v.wellformed)
              => /\ outcome' = Returned("__init__")
                 /\ printed' = <<ReadingJsonFile>>
                 /\ files_and_folders' = files_and_folders
                 /\ json_file' = json_file
        /\ (files_and_folders' # files_and_folders)
              => /\ ~json_file.set
                 /\ outcome' = Returned("__init__")
                 /\ json_file'.set
                 /\ files_and_folders' = Flat(CatalogOf(lookups, Disk)) ]_vars

\* an __init__ has just read the cache file and the catalog is not what a
\* scan of the lookup directory would give
C16_Witness ==
    /\ outcome = Returned("__init__")
    /\ printed = <<ReadingJsonFile>>
    /\ AllSupported
    /\ files_and_folders # Flat(CatalogOf(lookups, Disk))

\* C17: an __init__ that finds a cache file whose text does not parse scans
\* the lookup directory and returns with the scanned catalog.
C17_MalformedCacheRescanned ==
    [][ (outcome'.op = "__init__" /\ json_file.set /\ ~json_file.v.wellformed /\ AllSupported)
            => /\ outcome' = Returned("__init__")
               /\ files_and_folders' = Flat(CatalogOf(lookups, Disk)) ]_vars

\* C18: a scan of a lookup directory returns, and the catalog is the one of
\* the .csv and .xlsx files: a file of another type is left out.
C18_UnsupportedFileSkipped ==
    ScannedLast =>
        /\ outcome.raised = "no"
        /\ files_and_folders = Flat(CatalogOf(SelectSeq(lookups, Supported), Disk))

\* the code columns of the catalog's tables of this year, upper-cased
CodeColumnsOf(year) ==
    {Upper(col) : col \in UNION {Range(files_and_folders[i].useful_columns) :
                                    i \in {j \in 1..Len(files_and_folders) :
                                              files_and_folders[j].folder = year}}}

\* C19: available_geographies(year) raises the AssertionError of an unknown
\* year exactly when year is not in year_options; for a year of year_options
\* it returns the code columns of that year's tables, distinct and sorted.
C19_OnlyUnknownYearFails ==
    (outcome.op = "available_geographies" /\ selected_year.set) =>
        /\ outcome.raised = "AssertionError" <=> ~Contains(year_options.v, selected_year.v)
        /\ Contains(year_options.v, selected_year.v) =>
              /\ outcome.raised = "no"
              /\ Range(geocode_columns.v) = CodeColumnsOf(selected_year.v)
              /\ \A i, j \in 1..Len(geocode_columns.v) :
                    i < j => StrLess(geocode_columns.v[i], geocode_columns.v[j])

\* C20: after an __init__ that scanned the lookup directory, what json.load
\* gives for the cache file is the scanned catalog, folder by folder, table
\* by table, list by list, and it is the catalog of the instance.
C20_CatalogRoundTrip ==
    (ScannedLast /\ outcome.raised = "no") =>
        /\ json_file.set /\ json_file.v.wellformed
        /\ JsonLoad(json_file.v) = CatalogOf(lookups, Disk)
        /\ files_and_folders = Flat(CatalogOf(lookups, Disk))

\* a scan of two folders after a table was overwritten, with a table two
\* code columns of which have the same cardinality
C20_Witness ==
    /\ ScannedLast /\ outcome.raised = "no"
    /\ \E i \in 1..Len(lookups) : lookups[i].content # CacheFiles[1].content
                                   /\ lookups[i].name = CacheFiles[1].name
    /\ Len(FolderNames(lookups)) = 2
    /\ \E t \in 1..Len(files_and_folders) :
          \E i, j \in 1..Len(files_and_folders[t].useful_columns_nunique) :
              /\ i # j
              /\ files_and_folders[t].useful_columns_nunique[i]
                   = files_and_folders[t].useful_columns_nunique[j]

(***************************************************************************)
(* Properties of the routes and of the join graph                          *)
(***************************************************************************)
\* column c is a code column of the catalog table called name: of every file
\* of that name, when two folders hold one each
CodeColumnOf(c, name) ==
    \A t \in 1..Len(files_and_folders) :
        files_and_folders[t].name = name
            => c \in Range(files_and_folders[t].useful_columns)

\* the paths BFS_SP returned to find_paths in the last run_graph, each with
\* the start and goal it was asked for
ReturnedPaths ==
    IF ~all_paths.set THEN {}
    ELSE UNION {{[start |-> all_paths.v[s].key,
                  goal |-> all_paths.v[s].value[e].key,
                  path |-> all_paths.v[s].value[e].value.path] :
                    e \in {k \in 1..Len(all_paths.v[s].value) :
                              all_paths.v[s].value[k].value.kind = "path"}} :
                s \in 1..Len(all_paths.v)}

\* the route [t0, (t1, c1), ..., (tk, ck)] joins adjacent tables on a code
\* column of both
JoinsOnSharedCodeColumns(path) ==
    \A i \in 2..Len(path) :
        /\ CodeColumnOf(path[i].via, path[i - 1].table)
        /\ CodeColumnOf(path[i].via, path[i].table)

\* C23: in every path BFS_SP returned, each join column is a code column of
\* both tables it joins, the first node is the requested start table and the
\* last node is the requested goal table
C23_RouteInvariant ==
    \A r \in ReturnedPaths :
        /\ JoinsOnSharedCodeColumns(r.path)
        /\ r.path[1] = StartNode(r.start)
        /\ r.path[Len(r.path)].table = r.goal

\* the adjacency of table a names (b, c)
Adjacent(a, b, c) ==
    \E i \in 1..Len(graph.v[a]) : graph.v[a][i] = [table |-> b, via |-> c]

\* C24: the join graph is undirected and loop-free: (B, c) is in A's
\* adjacency exactly when (A, c) is in B's, and no adjacency names its own
\* table
C24_UndirectedLoopFree ==
    graph.set =>
        \A a \in DOMAIN graph.v :
            \A i \in 1..Len(graph.v[a]) :
                /\ graph.v[a][i].table # a
                /\ Adjacent(graph.v[a][i].table, a, graph.v[a][i].via)

\* the file join_tables loads for every hop (T, c) of the route carries the
\* join column c
LoadedTablesCarryJoinColumn(shortest_path) ==
    \A i \in 2..Len(shortest_path) :
        Contains(UpperColumns(OpenLocated(InstanceEnv, shortest_path[i].table)).columns,
                 shortest_path[i].via)

\* C26: for every hop (T, c) of every route run_graph stored, the file that
\* join_tables loads for T contains column c, and get_filtered_geocodes never
\* fails with a merge on a missing key
C26_LoadedTableIsGraphTable ==
    shortest_paths.set =>
        /\ \A k \in 1..Len(shortest_paths.v) :
              LoadedTablesCarryJoinColumn(shortest_paths.v[k])
        /\ GetFilteredGeocodesRan => outcome.raised # "KeyError"

\* the stored query has every parameter run_graph asks for
StoredQueryComplete ==
    /\ starting_column.v # <<>>
    /\ ending_column.v # <<>>
    /\ local_authorities.v # <<>>

\* C25: when get_filtered_geocodes returns tables, the routes it took them
\* from are the routes of the query stored in starting_column, ending_column
\* and local_authorities: a run_graph that raised leaves no routes of an
\* earlier, different query to be executed
C25_RoutesOfStoredQuery ==
    (GetFilteredGeocodesRan /\ outcome.raised = "no") =>
        /\ StoredQueryComplete
        /\ shortest_paths.v = RoutesUnder(hash_seed)

\* C27: on an instance created with local_authority_constraint=False, the
\* tables get_filtered_geocodes returns are the loaded or joined tables of
\* the routes with all their rows: no local-authority row filter is applied
\* to a single-table or to a multi-table route.  (Stated for directories
\* whose file names are distinct.)
C27_NoFilterWithoutConstraint ==
    (GetFilteredGeocodesRan /\ DistinctFileNames /\ ~local_authority_constraint
        /\ outcome.raised = "no") =>
        \A k \in 1..Len(final_tables_to_return.v) :
            final_tables_to_return.v[k] = Unfiltered(shortest_paths.v[k]).tables[1]

\* the columns of the file join_tables loads for the table called name, as
\* join_tables renames them
LoadedColumns(name) == UpperColumns(OpenLocated(InstanceEnv, name)).columns

\* the route [t0, (t1, c1), ..., (tk, ck)] names no table twice, and no join
\* column ci is a column of a table earlier in the route than t(i-1)
ChordFree(shortest_path) ==
    /\ \A i, j \in 1..Len(shortest_path) :
          shortest_path[i].table = shortest_path[j].table => i = j
    /\ \A i \in 3..Len(shortest_path) :
          \A j \in 1..(i - 2) :
              ~Contains(LoadedColumns(shortest_path[j].table), shortest_path[i].via)

\* C28: every multi-table route run_graph returns is chord-free: no table
\* occurs twice, and the join column of a hop is not a column of any table
\* earlier in the route than the one just before it, so the left copy that a
\* join on that column matches on is the one the preceding table brought in
C28_RoutesChordFree ==
    RunGraphReturned =>
        \A k \in 1..Len(shortest_paths.v) : ChordFree(shortest_paths.v[k])

\* run_graph returned a route of two hops, the second hop with a table
\* earlier in the route than the one it joins
C28_Witness ==
    /\ RunGraphReturned
    /\ \E k \in 1..Len(shortest_paths.v) : Len(shortest_paths.v[k]) = 3

\* a call of BFS_SP is in its while loop
InBFS == frame.set /\ frame.v.bfs.set

\* what the call of BFS_SP for the pair at the positions of frame f returned,
\* read from path_options[start_table] as find_paths has it after the call
ResultRecorded(f, found) ==
    IF \E i \in 1..Len(found) : found[i].key = end_options.v[f.e]
    THEN DictGet(found, end_options.v[f.e])
    ELSE NoConnectingPath

\* the result is the one of the three outcomes that start, goal and the
\* graph call for
OneOfThree(start, goal, result) ==
    /\ (result = NoneResult) <=> (start = goal)
    /\ (result = NoConnectingPath) <=> (start # goal /\ Hops(graph.v, start, goal) = -1)
    /\ (result.kind = "path") <=> (start # goal /\ Hops(graph.v, start, goal) > 0)
    /\ result.kind = "path" =>
          /\ result.path[1] = StartNode(start)
          /\ result.path[Len(result.path)].table = goal

\* a step in which a call of BFS_SP returns: find_paths moves on to the next
\* end table
BFSReturns ==
    /\ frame.set /\ frame'.set
    /\ frame'.v.s = frame.v.s
    /\ frame'.v.e = frame.v.e + 1

\* C29: every call of BFS_SP comes to an end, and it ends in exactly one of
\* three outcomes: the same-node result when start equals goal, a path from
\* the start whose last hop is the goal when the graph connects them, and the
\* no-connecting-path marker when the goal cannot be reached
C29_BFSEndsInOneOfThree ==
    /\ InBFS ~> ~InBFS
    /\ [][BFSReturns =>
            OneOfThree(StartTables[frame.v.s], end_options.v[frame.v.e],
                       ResultRecorded(frame.v, frame'.v.found))]_vars

\* a call of BFS_SP has returned the no-connecting-path marker for a start
\* table whose adjacency is not empty and leads back to the start table
C29_Witness ==
    /\ frame.set /\ ~frame.v.bfs.set
    /\ frame.v.e > 1 /\ frame.v.s <= Len(StartTables)
    /\ StartTables[frame.v.s] # end_options.v[frame.v.e - 1]
    /\ \A i \in 1..Len(frame.v.found) : frame.v.found[i].key # end_options.v[frame.v.e - 1]
    /\ \E k \in 1..Len(graph.v[StartTables[frame.v.s]]) :
          Hops(graph.v, graph.v[StartTables[frame.v.s]][k].table, StartTables[frame.v.s]) # -1

\* C30: when find_paths yields at least one connected (start, end) pair,
\* find_shortest_paths returns at least one route, however many hops the
\* shortest connecting route has
C30_SomeRouteReturned ==
    (RunGraphReturned /\ Len(all_paths.v) >= 1) => Len(shortest_paths.v) >= 1

(***************************************************************************)
(* access_nomis: DownloadFromNomis.table_to_csv and table_to_pandas and    *)
(* the LBLToNomis.url_creator they call.  A qualifiers dict is a sequence  *)
(* of [key, value] entries, a value is Unset (None) or Val(list of codes), *)
(* a code is [t, v]: the GSS code 'E' + eight digits of the number v       *)
(* (t = "gss") or the integer v (t = "int").  A dict object is known by    *)
(* its name in qualifier_dicts: a call that gets the same name gets the    *)
(* same object.                                                            *)
(***************************************************************************)
Gss(v) == [t |-> "gss", v |-> v]
IntCode(v) == [t |-> "int", v |-> v]

RECURSIVE Zeroes(_)
Zeroes(n) == IF n <= 0 THEN "" ELSE "0" \o Zeroes(n - 1)

\* _create_geography_e_code
CreateGeographyECode(val) == "E" \o Zeroes(8 - Len(Digits(val))) \o ToString(val)

\* f"{code}"
Formatted(code) == IF code.t = "gss" THEN CreateGeographyECode(code.v) ELSE ToString(code.v)

\* sep.join(strings)
RECURSIVE Join(_, _)
Join(strings, sep) ==
    IF strings = <<>> THEN ""
    ELSE IF Len(strings) = 1 THEN strings[1]
    ELSE strings[1] \o sep \o Join(Tail(strings), sep)

\* _geography_edges: the (first, last) pairs of the runs of consecutive
\* numbers of nums, in ascending order
GeographyEdges(nums) ==
    LET firsts == {n \in nums : (n - 1) \notin nums}
        last(s) == CHOOSE e \in nums :
                      /\ e >= s /\ (e + 1) \notin nums
                      /\ \A m \in s..e : m \in nums
        sorted == [k \in 1..Cardinality(firsts) |->
                      CHOOSE s \in firsts : Cardinality({x \in firsts : x < s}) = k - 1]
    IN  [k \in 1..Len(sorted) |-> <<sorted[k], last(sorted[k])>>]

\* what _unpack_geography_list appends to list_to_concat for one edge
EdgeCodes(edge) ==
    IF edge[2] = edge[1] THEN <<CreateGeographyECode(edge[1])>>
    ELSE IF edge[2] - edge[1] = 1
    THEN <<CreateGeographyECode(edge[1]), CreateGeographyECode(edge[2])>>
    ELSE <<CreateGeographyECode(edge[1]) \o "..." \o CreateGeographyECode(edge[2])>>

\* _unpack_geography_list, on GSS codes of nine characters
UnpackGeographyList(geographies) ==
    LET edges == GeographyEdges({geographies[i].v : i \in 1..Len(geographies)})
    IN  Join(Flatten([k \in 1..Len(edges) |-> EdgeCodes(edges[k])]), ",")

\* search_string of url_creator for one item of qualifiers
SearchString(keyword, qualifier_codes) ==
    IF Len(qualifier_codes) = 1 THEN Formatted(qualifier_codes[1])
    ELSE IF keyword = "geography" THEN UnpackGeographyList(qualifier_codes)
    ELSE Join([i \in 1..Len(qualifier_codes) |-> Formatted(qualifier_codes[i])], ",")

\* url_creator(dataset, qualifiers, None, for_download=True): self.url as
\* the dataset, the keyword=search_string& parts in their order and the uid
\* part; the assert on an item that is no list raises before self.url is set
UrlCreator(dataset, qualifiers) ==
    IF \E i \in 1..Len(qualifiers) : ~qualifiers[i].value.set
    THEN [raised |-> "AssertionError", url |-> Unset]
    ELSE [raised |-> "no",
          url |-> Val([table |-> dataset \o ".data.csv",
                       query |-> [i \in 1..Len(qualifiers) |->
                                    [keyword |-> qualifiers[i].key,
                                     search_string |-> SearchString(qualifiers[i].key,
                                                                    qualifiers[i].value.v)]],
                       uid |-> "uid"])]

\* the first statements of table_to_csv and of table_to_pandas: the
\* qualifiers dict they were given, after them
WithMeasures(qualifiers, value_or_percent) ==
    IF value_or_percent = Val("percent")
    THEN DictPut(qualifiers, "measures", Val(<<IntCode(20301)>>))
    ELSE IF value_or_percent = Val("value")
    THEN DictPut(qualifiers, "measures", Val(<<IntCode(20100)>>))
    ELSE qualifiers

\* the dict literals of the caller and the default of the two methods
\* ({'geography': None})
QualifiersWritten ==
    [a |-> <<[key |-> "geography", value |-> Val(<<Gss(9000023)>>)]>>,
     b |-> <<[key |-> "geography",
              value |-> Val(<<Gss(9000023), Gss(9000011), Gss(9000012), Gss(9000013),
                              Gss(9000022)>>)],
             [key |-> "sex", value |-> Val(<<IntCode(1), IntCode(2)>>)],
             [key |-> "measures", value |-> Val(<<IntCode(20100)>>)]>>,
     table_to_csv |-> <<[key |-> "geography", value |-> Unset]>>,
     table_to_pandas |-> <<[key |-> "geography", value |-> Unset]>>]

CallerDicts == {"a", "b"}
ValueOrPercent == {Unset, Val("percent"), Val("value")}

\* no SmartGeocodeLookup is in use
NoLookup ==
    /\ lookups = <<>>
    /\ files_and_folders = <<>>
    /\ json_file = Unset
    /\ year_options = Unset
    /\ selected_year = Unset
    /\ geocode_columns = Unset
    /\ using_max_values = FALSE
    /\ local_authority_constraint = TRUE
    /\ hash_seed = 1
    /\ starting_column = Unset
    /\ ending_column = Unset
    /\ local_authorities = Unset
    /\ graph = Unset
    /\ table_column_pairs = Unset
    /\ starting_points = Unset
    /\ shortest_paths = Unset
    /\ end_options = Unset
    /\ all_paths = Unset
    /\ final_tables_to_return = Unset
    /\ printed = <<>>
    /\ frame = Unset

lookup == <<files_and_folders, using_max_values, local_authority_constraint, hash_seed,
            starting_column, ending_column, local_authorities, graph, table_column_pairs,
            starting_points, shortest_paths, end_options, all_paths,
            final_tables_to_return, printed, frame, lookups, json_file, year_options,
            selected_year, geocode_columns>>

\* DownloadFromNomis(api_key=...): self.url = None; the defaults of the two
\* methods are as their def statements made them
InitNomis ==
    /\ NoLookup
    /\ qualifier_dicts = Val(QualifiersWritten)
    /\ url = Unset
    /\ server = Unset
    /\ feature_server = Unset
    /\ responses = Unset
    /\ outcome = Returned("__init__")

\* the caller writes the dict literal again: a new object under the name
NewQualifiers(name) ==
    /\ qualifier_dicts' = Val([qualifier_dicts.v EXCEPT ![name] = QualifiersWritten[name]])
    /\ outcome' = Returned("qualifiers = {...}")
    /\ UNCHANGED <<lookup, url, server, feature_server, responses>>

\* table_to_csv or table_to_pandas (op) up to the request: qualifiers is the
\* name of the dict object the call gets, the method's own name when the
\* argument is left out
TableCall(op, qualifiers, value_or_percent) ==
    /\ qualifier_dicts' =
          Val([qualifier_dicts.v EXCEPT
                  ![qualifiers] = WithMeasures(qualifier_dicts.v[qualifiers], value_or_percent)])
    /\ url' = IF UrlCreator("NM_2021_1", WithMeasures(qualifier_dicts.v[qualifiers],
                                                      value_or_percent)).raised = "no"
              THEN UrlCreator("NM_2021_1", WithMeasures(qualifier_dicts.v[qualifiers],
                                                        value_or_percent)).url
              ELSE url
    /\ outcome' = [op |-> op,
                   raised |-> UrlCreator("NM_2021_1",
                                         WithMeasures(qualifier_dicts.v[qualifiers],
                                                      value_or_percent)).raised,
                   qualifiers |-> qualifiers,
                   value_or_percent |-> value_or_percent]
    /\ UNCHANGED <<lookup, server, feature_server, responses>>

Methods == {"table_to_csv", "table_to_pandas"}

NextNomis ==
    \/ \E name \in CallerDicts : NewQualifiers(name)
    \/ \E op \in Methods, v \in ValueOrPercent :
          \E q \in CallerDicts \cup {op} : TableCall(op, q, v)

SpecNomis == InitNomis /\ [][NextNomis]_vars

(***************************************************************************)
(* Properties of the requests to Nomis                                     *)
(***************************************************************************)
\* the last call was table_to_csv or table_to_pandas with value_or_percent
\* left empty and a qualifiers dict that the caller wrote without a
\* 'measures' entry, or the default dict
CalledWithoutMeasures ==
    /\ outcome.op \in Methods
    /\ outcome.value_or_percent = Unset
    /\ \A i \in 1..Len(QualifiersWritten[outcome.qualifiers]) :
          QualifiersWritten[outcome.qualifiers][i].key # "measures"

\* C21: a call of table_to_pandas or table_to_csv with value_or_percent left
\* empty and qualifiers without a 'measures' entry of the caller's builds a
\* request without a 'measures' restriction, whatever calls came before it
C21_NoMeasuresUnlessAsked ==
    (CalledWithoutMeasures /\ outcome.raised = "no") =>
        \A i \in 1..Len(url.v.query) : url.v.query[i].keyword # "measures"

(***************************************************************************)
(* open_geography_api: FeatureServer.select_service and download.  The     *)
(* portal holds, for every link (layer or table) of the service, records   *)
(* known by their primary key, a positive integer; a feature is            *)
(* [link, id].  A where clause is '1=1' (kind "all"), '<key><=n' (kind     *)
(* "upto") or '<key>>n' (kind "after").  The portal answers a query with   *)
(* the first MaxRecordCount matching records in the order of the key.      *)
(***************************************************************************)
MaxId == 3
MaxRecordCount == 2
MaxLinks == 3

All == [kind |-> "all", n |-> 0]
UpTo(n) == [kind |-> "upto", n |-> n]
After(n) == [kind |-> "after", n |-> n]

Matches(where, id) ==
    IF where.kind = "upto" THEN id <= where.n
    ELSE IF where.kind = "after" THEN id > where.n
    ELSE TRUE

\* request_get(link_url, params=params).json()['features']
Query(portal, link, where) ==
    LET ids == {id \in portal.records[link] : Matches(where, id)}
        sorted == [k \in 1..Cardinality(ids) |->
                      CHOOSE id \in ids : Cardinality({x \in ids : x < id}) = k - 1]
    IN  [k \in 1..(IF Len(sorted) < MaxRecordCount THEN Len(sorted) ELSE MaxRecordCount) |->
            [link |-> link, id |-> sorted[k]]]

\* _record_count
RecordCount(portal, link, where) ==
    Cardinality({id \in portal.records[link] : Matches(where, id)})

\* max([i["properties"][primary_key] for i in features]) of a list that is
\* not empty
LastObject(features) ==
    CHOOSE n \in {features[i].id : i \in 1..Len(features)} :
        \A i \in 1..Len(features) : features[i].id <= n

\* the while loop of download for one link: counter, count and last_object
\* are its locals, where is params['where'] and features is
\* responses['features']; the result is [raised, where, features]
RECURSIVE Pages(_, _, _, _, _, _, _)
PagesNext(portal, link, where, additional_response, counter, count, features) ==
    IF additional_response = <<>>
    THEN \* max() of an empty list
         [raised |-> "ValueError", where |-> where, features |-> <<>>]
    ELSE Pages(portal, link, where, counter + Len(additional_response), count,
               LastObject(additional_response), features \o additional_response)

Pages(portal, link, where, counter, count, last_object, features) ==
    IF counter < count
    THEN \* both branches of the if on ">" leave '<key>>last_object' for
         \* the where clauses there are
         PagesNext(portal, link, After(last_object),
                   Query(portal, link, After(last_object)), counter, count, features)
    ELSE [raised |-> "no", where |-> where, features |-> features]

\* the first link: its first response is responses, and the loop adds to it
FirstLink(portal, link, where) ==
    IF Query(portal, link, where) = <<>>
    THEN [raised |-> "ValueError", where |-> where, features |-> <<>>]
    ELSE Pages(portal, link, where, Len(Query(portal, link, where)),
               RecordCount(portal, link, where), LastObject(Query(portal, link, where)),
               Query(portal, link, where))

\* a link of links_to_visit[1:]: its first response stays in the local
\* response, and the loop adds the further ones to responses
LaterLink(portal, link, where, features) ==
    IF Query(portal, link, where) = <<>>
    THEN [raised |-> "ValueError", where |-> where, features |-> <<>>]
    ELSE Pages(portal, link, where, Len(Query(portal, link, where)),
               RecordCount(portal, link, where), LastObject(Query(portal, link, where)),
               features)

\* the for loop over links_to_visit[1:], from its k-th link on; r is
\* [raised, where, features] as the links before left them
RECURSIVE LaterLinks(_, _, _, _)
LaterLinks(portal, links_to_visit, k, r) ==
    IF r.raised # "no" \/ k > Len(links_to_visit) THEN r
    ELSE LaterLinks(portal, links_to_visit, k + 1,
                    LaterLink(portal, links_to_visit[k], r.where, r.features))

\* links_to_visit; layers.extend(tables) changes the list of the service
LinksToVisit(service) ==
    IF service.layers # <<>> /\ service.tables # <<>> THEN service.layers \o service.tables
    ELSE IF service.tables # <<>> THEN service.tables
    ELSE service.layers

LayersAfter(service) ==
    IF service.layers # <<>> /\ service.tables # <<>> THEN service.layers \o service.tables
    ELSE service.layers

\* download from `if hasattr(self, 'feature_server')` on
Visit(portal, links_to_visit, where, visit_all_links) ==
    IF links_to_visit = <<>>
    THEN \* links_to_visit is not bound
         [raised |-> "UnboundLocalError", where |-> where, features |-> <<>>]
    ELSE IF Len(links_to_visit) > 1 /\ visit_all_links
    THEN LaterLinks(portal, links_to_visit, 2, FirstLink(portal, links_to_visit[1], where))
    ELSE FirstLink(portal, links_to_visit[1], where)

\* what the portal can hold: the layers and tables of the service and a set
\* of records for each link
Services ==
    { [layers |-> <<0>>, tables |-> <<>>],
      [layers |-> <<0, 1>>, tables |-> <<>>],
      [layers |-> <<0>>, tables |-> <<1>>],
      [layers |-> <<>>, tables |-> <<0, 1>>] }

Portals ==
    { [layers |-> s.layers, tables |-> s.tables, records |-> r] :
        s \in Services, r \in [{0, 1} -> SUBSET (1..MaxId)] }

RowFilters == {All, After(1)}
SampleRows == {-1, 2}

\* FeatureServer(): no service is selected
InitPortal ==
    /\ NoLookup
    /\ qualifier_dicts = Unset
    /\ url = Unset
    /\ server \in {Val(p) : p \in Portals}
    /\ feature_server = Unset
    /\ responses = Unset
    /\ outcome = Returned("__init__")

\* select_service(service_name) for the service of the portal:
\* service_attributes reads its layers and tables
SelectService ==
    /\ feature_server' = Val([layers |-> server.v.layers, tables |-> server.v.tables])
    /\ responses' = Unset
    /\ outcome' = Returned("select_service")
    /\ UNCHANGED <<lookup, qualifier_dicts, url, server>>

\* sql_row_filter as download has it after the test of n_sample_rows
RowFilter(sql_row_filter, n_sample_rows) ==
    IF n_sample_rows > 0 THEN UpTo(n_sample_rows) ELSE sql_row_filter

\* the end of download: r is [raised, where, features]
DownloadEnds(r, sql_row_filter, visit_all_links) ==
    /\ responses' = IF r.raised = "no" THEN Val(r.features) ELSE Unset
    /\ outcome' = [op |-> "download", raised |-> r.raised,
                   sql_row_filter |-> sql_row_filter, visit_all_links |-> visit_all_links]

\* download(sql_row_filter=..., visit_all_links=..., n_sample_rows=...), while
\* the list of layers of the service, which every call can extend, has
\* fewer than MaxLinks links
Download(sql_row_filter, visit_all_links, n_sample_rows) ==
    /\ feature_server.set => Len(feature_server.v.layers) < MaxLinks
    /\ UNCHANGED <<lookup, qualifier_dicts, url, server>>
    /\ IF ~feature_server.set
       THEN \* self.feature_server.primary_key
            /\ outcome' = [op |-> "download", raised |-> "AttributeError",
                           sql_row_filter |-> RowFilter(sql_row_filter, n_sample_rows),
                           visit_all_links |-> visit_all_links]
            /\ responses' = Unset
            /\ UNCHANGED feature_server
       ELSE /\ feature_server' = Val([feature_server.v EXCEPT
                                         !.layers = LayersAfter(feature_server.v)])
            /\ DownloadEnds(Visit(server.v, LinksToVisit(feature_server.v),
                                  RowFilter(sql_row_filter, n_sample_rows), visit_all_links),
                            RowFilter(sql_row_filter, n_sample_rows), visit_all_links)

NextPortal ==
    \/ SelectService
    \/ \E f \in RowFilters, all \in BOOLEAN, n \in SampleRows : Download(f, all, n)

SpecPortal == InitPortal /\ [][NextPortal]_vars

(***************************************************************************)
(* Properties of the downloads from the portal                             *)
(***************************************************************************)
\* the records of the link that match the row filter are all among the
\* returned features
AllRecordsReturned(link, where) ==
    \A id \in server.v.records[link] :
        Matches(where, id) => Contains(responses.v, [link |-> link, id |-> id])

\* C22: with visit_all_links=True, download returns, for every link of the
\* selected service, all the records of that link that match the caller's
\* row filter, those of the link's first response page among them
C22_EveryLinkInFull ==
    (outcome.op = "download" /\ outcome.raised = "no" /\ outcome.visit_all_links) =>
        \A link \in Range(server.v.layers) \cup Range(server.v.tables) :
            AllRecordsReturned(link, outcome.sql_row_filter)

====
